---- MODULE Spec2Model ----
(***************************************************************************)
(* NEAT (Greenpp/NEAT): the genetic encoding of genetics.py, the crossover *)
(* of entity.py and the run start of neat.py, as a state machine.          *)
(*                                                                         *)
(* The state is the process-wide innovation registry (Gene.genetics,       *)
(* Gene.innovation) and the entities of the current controller.  Python    *)
(* objects that the code mutates in place (Gene objects, the set objects   *)
(* held in Genotype.routes) carry an identity field obj, and every write   *)
(* to such an object reaches every holder of the same object.              *)
(***************************************************************************)
EXTENDS Integers, Sequences, FiniteSets, TLC

\* ---------------------------------------------------------------- bounds
NumInputs == 1
NumOutputs == 1
MaxMinted == 7
CopyMinted == 3
MateMinted == 1
MaxHidden == 2
MaxEntities == 3
MaxRuns == 2
MaxWeight == 1
MaxMembers == 4
MaxGenerations == 3
BredMinted == 1
SmallPopulation == 3
LargePopulation == 8
SpeciesMinted == 3
NetHidden == 2
MaxNetGenes == 4
MaxVectors == 2
MaxCalls == 2
\* the output nodes and the samples of the entities that Entity.test is followed on
MaxOutputs == 2
\* the input nodes of the founders whose connections are counted
MaxInputs == 2
MaxSamples == 2

Slots == 1..MaxEntities
\* weights are reals in the code; the model keeps the value 1 that a split
\* assigns, 0 for the range [-.5, .5) of a new gene's random weight, and
\* the values up to MaxWeight for what a weight mutation can leave
Weights == 0..MaxWeight
FitnessValues == {-1, 0}

\* an unset fitness (Python None) is the empty tuple, a set one is <<value>>
NoFitness == <<>>

\* ------------------------------------------------- CPython sets of ints
\* A set object of small non-negative ints: mask is the table size minus
\* one, tab maps each occupied slot to its key.  hash(k) = k.

\* d[key] = value on a dict d
Put(d, key, value) == [k \in DOMAIN d \cup {key} |-> IF k = key THEN value ELSE d[k]]

EmptySet == [mask |-> 7, tab |-> <<>>]

Keys(s) == {s.tab[i] : i \in DOMAIN s.tab}

RECURSIVE ProbeFrom(_, _, _, _)
ProbeFrom(mask, occupied, i, perturb) ==
    IF i \notin occupied THEN i
    ELSE ProbeFrom(mask, occupied, (i * 5 + 1 + (perturb \div 32)) % (mask + 1),
                   perturb \div 32)

Probe(mask, occupied, k) == ProbeFrom(mask, occupied, k % (mask + 1), k)

RECURSIVE SlotsBelow(_, _)
SlotsBelow(occupied, n) ==
    IF n = 0 THEN <<>>
    ELSE IF (n - 1) \in occupied THEN Append(SlotsBelow(occupied, n - 1), n - 1)
         ELSE SlotsBelow(occupied, n - 1)

\* iteration order: the keys by ascending slot
SetOrder(s) ==
    LET sl == SlotsBelow(DOMAIN s.tab, s.mask + 1)
    IN  [n \in 1..Len(sl) |-> s.tab[sl[n]]]

RECURSIVE InsertAll(_, _, _)
InsertAll(mask, tab, ks) ==
    IF ks = <<>> THEN tab
    ELSE InsertAll(mask, Put(tab, Probe(mask, DOMAIN tab, Head(ks)), Head(ks)), Tail(ks))

RECURSIVE TableSize(_, _)
TableSize(n, minused) == IF n > minused THEN n ELSE TableSize(2 * n, minused)

SetResize(s, minused) ==
    LET n == TableSize(8, minused)
    IN  [mask |-> n - 1, tab |-> InsertAll(n - 1, <<>>, SetOrder(s))]

SetAdd(s, k) ==
    IF k \in Keys(s) THEN s
    ELSE LET t == [mask |-> s.mask, tab |-> Put(s.tab, Probe(s.mask, DOMAIN s.tab, k), k)]
             used == Cardinality(DOMAIN t.tab)
         IN  IF used * 5 < t.mask * 3 THEN t ELSE SetResize(t, used * 4)

RECURSIVE AddAll(_, _)
AddAll(s, ks) == IF ks = <<>> THEN s ELSE AddAll(SetAdd(s, Head(ks)), Tail(ks))

SetCopy(s) ==
    LET used == Cardinality(DOMAIN s.tab)
    IN  IF used * 5 >= 7 * 3 THEN SetResize(s, used * 2)
        ELSE IF s.mask = 7 THEN s
        ELSE [mask |-> 7, tab |-> InsertAll(7, <<>>, SetOrder(s))]

\* s.difference(other), as the sequence in which the result iterates
SetDifference(s, other) ==
    LET keep(q) == SelectSeq(q, LAMBDA k : k \notin other)
    IN  IF Cardinality(DOMAIN s.tab) \div 4 > Cardinality(other)
        THEN keep(SetOrder(SetCopy(s)))
        ELSE SetOrder(AddAll(EmptySet, keep(SetOrder(s))))

\* ------------------------------------------------------------- the state
VARIABLES
    innovation,   \* Gene.innovation
    genetics,     \* Gene.genetics: ids maps a connection to its set of ids,
                  \* conn maps an id to its connection
    entities,     \* the entities of the current controller, by slot
    runs,         \* how many controllers this process has constructed
    issued,       \* history: per connection, the ids insert_gene gave in this
                  \* run to genotypes holding no hidden node split from it
    mated,        \* the locals of the Entity.mate call that made this step
                  \* (self, entity, the matched genes whose weight it replaced
                  \* and child_gen before it mutates), else <<>>
    budget,       \* how many innovation ids the model may still mint
    species,      \* NEAT.species: each Specie with its entities (slots, in
                  \* list order) and its shared_fitness
    specie_acceptance,   \* NEAT.specie_acceptance, in tenths
    population,   \* NEAT.population
    generation,   \* len(NEAT.error_value): how many times the species were sorted
    error_value,  \* NEAT.error_value: the negated best fitness of every sort
    network,      \* a Network object with the compute call that runs on it
                  \* (its locals and the stack of get_value calls), else <<>>
    call          \* the NEAT method that made this step, with its arguments
                  \* and locals, else <<>>

vars == <<innovation, genetics, entities, runs, issued, mated, budget,
          species, specie_acceptance, population, generation, error_value, network,
          call>>

\* what an operation reads and writes, as one value; raised is set when the
\* operation ends in an exception
World == [innovation |-> innovation, genetics |-> genetics, entities |-> entities,
          issued |-> issued, species |-> species,
          specie_acceptance |-> specie_acceptance, raised |-> FALSE]

\* ------------------------------------------------------------ genetics.py
Gene(gene_id, weight, slot) == [gene_id |-> gene_id, weight |-> weight, obj |-> slot]

Gene_alias(gene, slot) == gene

Gene_copy(gene, slot) == Gene(gene.gene_id, gene.weight, slot)

\* a founder whose input nodes may connect to input nodes as well
Genotype_wide(input_num, output_num, slot) ==
    LET ins == 0..(input_num - 1)
        outs == input_num..(input_num + output_num - 1)
    IN  [input_nodes |-> ins, output_nodes |-> outs,
         hidden_nodes |-> {}, hidden_obj |-> slot,
         genes |-> <<>>,
         routes |-> [b \in ins |-> [nodes |-> ins \cup outs, obj |-> slot]]]

Genotype(input_num, output_num, slot) ==
    LET ins == 0..(input_num - 1)
        outs == input_num..(input_num + output_num - 1)
    IN  [input_nodes |-> ins, output_nodes |-> outs,
         hidden_nodes |-> {}, hidden_obj |-> slot,
         genes |-> <<>>,
         routes |-> [b \in ins |-> [nodes |-> outs, obj |-> slot]]]

Genotype_shallow(g, slot) == [g EXCEPT !.hidden_obj = slot]

Genotype_copy(g, slot) ==
    [input_nodes |-> g.input_nodes, output_nodes |-> g.output_nodes,
     hidden_nodes |-> g.hidden_nodes, hidden_obj |-> slot,
     genes |-> [con \in DOMAIN g.genes |-> Gene_copy(g.genes[con], slot)],
     routes |-> [n \in DOMAIN g.routes |-> [nodes |-> g.routes[n].nodes, obj |-> slot]]]

\* writes to a shared object: every genotype that holds the object sees them
WriteRoute(E, slot, n, nodes) ==
    LET o == E[slot].genotype.routes[n].obj
    IN  [j \in DOMAIN E |->
            IF n \in DOMAIN E[j].genotype.routes /\ E[j].genotype.routes[n].obj = o
            THEN [E[j] EXCEPT !.genotype.routes[n].nodes = nodes]
            ELSE E[j]]

WriteWeight(E, slot, con, weight) ==
    LET o == E[slot].genotype.genes[con].obj
    IN  [j \in DOMAIN E |->
            IF con \in DOMAIN E[j].genotype.genes /\ E[j].genotype.genes[con].obj = o
            THEN [E[j] EXCEPT !.genotype.genes[con].weight = weight]
            ELSE E[j]]

WriteHidden(E, slot, nodes) ==
    LET o == E[slot].genotype.hidden_obj
    IN  [j \in DOMAIN E |->
            IF E[j].genotype.hidden_obj = o
            THEN [E[j] EXCEPT !.genotype.hidden_nodes = nodes]
            ELSE E[j]]

\* next(iter(aviable_ids))
FirstId(aviable_ids) == Head(aviable_ids)

AlwaysMints(known, aviable_ids) == TRUE

\* whether insert_gene takes the counter's value: the connection is not on
\* record, or each of its recorded ids is a hidden node of the genotype
Mints(known, aviable_ids) == ~known \/ Len(aviable_ids) = 0

\* Genotype.insert_gene on the genotype in slot; raised is a KeyError of
\* routes[in_node].remove(out_node), which leaves the registry updated
insert_gene(W, slot, connection, weight) ==
    LET g == W.entities[slot].genotype
        known == connection \in DOMAIN W.genetics.ids
        aviable_ids == IF known
                       THEN SetDifference(W.genetics.ids[connection], g.hidden_nodes)
                       ELSE <<>>
        mint == Mints(known, aviable_ids)
        new_id == IF mint THEN W.innovation ELSE FirstId(aviable_ids)
        ids == IF known THEN W.genetics.ids[connection] ELSE EmptySet
        reg == IF mint
               THEN [ids |-> Put(W.genetics.ids, connection, SetAdd(ids, new_id)),
                     conn |-> Put(W.genetics.conn, new_id, connection)]
               ELSE W.genetics
        in_node == connection[1]
        out_node == connection[2]
        clean == g.hidden_nodes \cap Keys(ids) = {}
        got == IF connection \in DOMAIN W.issued THEN W.issued[connection] ELSE {}
        W1 == [W EXCEPT !.innovation = IF mint THEN @ + 1 ELSE @, !.genetics = reg,
                        !.issued = IF clean THEN Put(@, connection, got \cup {new_id})
                                   ELSE @]
    IN  IF in_node \notin DOMAIN g.routes \/ out_node \notin g.routes[in_node].nodes
        THEN [W1 EXCEPT !.raised = TRUE]
        ELSE LET E1 == WriteRoute(W1.entities, slot, in_node,
                                  g.routes[in_node].nodes \ {out_node})
             IN  [W1 EXCEPT !.entities =
                    [E1 EXCEPT ![slot].genotype.genes =
                        Put(@, connection, Gene(new_id, weight, slot))]]

\* the default weight of Gene.__init__, random.random() - .5
DefaultWeights == {0}

\* what Gene.randomize and Gene.random_shift can leave
RandomWeights == Weights

\* what random.choice can return: <<>> stands for "nothing to choose from"
Picks(S) == IF S = {} THEN {<<>>} ELSE S

\* the (in_node, out_node) pairs Genotype.add_connection can pick
OpenRoutes(g) ==
    UNION {{<<in_node, out_node>> : out_node \in g.routes[in_node].nodes} :
                in_node \in DOMAIN g.routes}

\* an add_connection that takes an innovation number before it looks at the
\* routes
add_connection_counting(W, slot, key, weight) ==
    IF OpenRoutes(W.entities[slot].genotype) = {} THEN [W EXCEPT !.innovation = @ + 1]
    ELSE insert_gene(W, slot, key, weight)

\* Genotype.add_connection, key being the pair it picks and weight the
\* random weight of the new gene
add_connection(W, slot, key, weight) ==
    IF OpenRoutes(W.entities[slot].genotype) = {} THEN W
    ELSE insert_gene(W, slot, key, weight)

RECURSIVE AddToRoutes(_, _, _, _)
AddToRoutes(E, slot, keys, id) ==
    IF keys = {} THEN E
    ELSE LET key == CHOOSE k \in keys : TRUE
         IN  AddToRoutes(WriteRoute(E, slot, key, E[slot].genotype.routes[key].nodes \cup {id}),
                         slot, keys \ {key}, id)

\* the second insert_gene of intersect_connection, which an exception of the
\* first one never reaches
insert_out_gene(W1, slot, connection, weight) ==
    IF W1.raised THEN W1 ELSE insert_gene(W1, slot, connection, weight)

\* self.hidden_nodes.add(gene_id), the last statement of intersect_connection
add_hidden_node(W2, slot, gene_id) ==
    IF W2.raised THEN W2
    ELSE [W2 EXCEPT !.entities =
            WriteHidden(W2.entities, slot,
                        W2.entities[slot].genotype.hidden_nodes \cup {gene_id})]

\* Genotype.intersect_connection, conn being the connection it picks
intersect_connection(W, slot, conn) ==
    LET g == W.entities[slot].genotype
        gene_id == g.genes[conn].gene_id
        conn_weight == g.genes[conn].weight
        in_node == conn[1]
        out_node == conn[2]
        \* del self.genes[conn]
        E0 == [W.entities EXCEPT ![slot].genotype.genes =
                    [c \in DOMAIN g.genes \ {conn} |-> g.genes[c]]]
        \* restore route
        E1 == WriteRoute(E0, slot, in_node, g.routes[in_node].nodes \cup {out_node})
        \* add new node to routes
        E2 == AddToRoutes(E1, slot, DOMAIN g.routes, gene_id)
        \* create routes for new node
        E3 == [E2 EXCEPT ![slot].genotype.routes =
                    Put(@, gene_id, [nodes |-> g.hidden_nodes \cup g.output_nodes, obj |-> slot])]
    IN  IF DOMAIN g.genes = {} THEN W
        ELSE add_hidden_node(
                insert_out_gene(
                    insert_gene([W EXCEPT !.entities = E3], slot, <<in_node, gene_id>>, 1),
                    slot, <<gene_id, out_node>>, conn_weight),
                slot, gene_id)

RECURSIVE SetWeights(_, _, _, _)
SetWeights(E, slot, conns, nw) ==
    IF conns = {} THEN E
    ELSE LET conn == CHOOSE c \in conns : TRUE
         IN  SetWeights(WriteWeight(E, slot, conn, nw[conn]), slot, conns \ {conn}, nw)

\* the random draws of one Genotype.mutate: whether each step runs, the
\* weights the weight step leaves, the pair add_connection picks (with its
\* weight) and the connection intersect_connection picks
Draws(g) ==
    LET conns == DOMAIN g.genes
        keys == OpenRoutes(g)
        adds == {[add |-> FALSE, key |-> <<>>, weight |-> 0]}
                \cup {[add |-> TRUE, key |-> k, weight |-> w] :
                            k \in Picks(keys), w \in DefaultWeights}
        after(a) == IF a.add /\ a.key # <<>> THEN conns \cup {a.key} ELSE conns
        splits(a) == {[split |-> FALSE, conn |-> <<>>]}
                     \cup {[split |-> TRUE, conn |-> c] : c \in Picks(after(a))}
        shifts == {[shift |-> FALSE, nw |-> <<>>]}
                  \cup IF conns = {} THEN {}
                       ELSE {[shift |-> TRUE, nw |-> f] : f \in [conns -> RandomWeights]}
    IN  UNION {{[shift |-> sh.shift, nw |-> sh.nw, add |-> a.add, key |-> a.key,
                 weight |-> a.weight, split |-> sp.split, conn |-> sp.conn] :
                    sh \in shifts, sp \in splits(a)} : a \in adds}

\* the weight step of Genotype.mutate
mutate_weights(W, slot, d) ==
    IF d.shift
    THEN [W EXCEPT !.entities =
            SetWeights(W.entities, slot, DOMAIN W.entities[slot].genotype.genes, d.nw)]
    ELSE W

\* the add_connection step of Genotype.mutate
mutate_add(W1, slot, d) ==
    IF d.add THEN add_connection(W1, slot, d.key, d.weight) ELSE W1

\* a split step that splits a second connection after the first
mutate_split_twice(W2, slot, d) ==
    IF W2.raised \/ DOMAIN W2.entities[slot].genotype.genes = {} THEN W2
    ELSE IF d.split
         THEN \* the second pick is any gene that is left
              IF intersect_connection(W2, slot, d.conn).raised
              THEN intersect_connection(W2, slot, d.conn)
              ELSE intersect_connection(
                      intersect_connection(W2, slot, d.conn), slot,
                      CHOOSE c \in DOMAIN intersect_connection(W2, slot, d.conn)
                                            .entities[slot].genotype.genes : TRUE)
    ELSE W2

\* the intersect_connection step of Genotype.mutate
mutate_split(W2, slot, d) ==
    IF W2.raised \/ DOMAIN W2.entities[slot].genotype.genes = {} THEN W2
    ELSE IF d.split THEN intersect_connection(W2, slot, d.conn)
    ELSE W2

\* Genotype.mutate under the draws d
mutate(W, slot, d) == mutate_split(mutate_add(mutate_weights(W, slot, d), slot, d), slot, d)

\* -------------------------------------------------------------- entity.py
Entity(input_num, output_num, slot) ==
    [genotype |-> Genotype(input_num, output_num, slot), fitness |-> NoFitness]

\* (y - y_hat) ** 2 on the output array of one sample, element by element
SquaredError(y, y_hat) == [o \in DOMAIN y |-> (y[o] - y_hat[o]) * (y[o] - y_hat[o])]

\* the pairs that zip(net_out, output) gives
Zipped(net_out, output) ==
    1..(IF Len(net_out) <= Len(output) THEN Len(net_out) ELSE Len(output))

\* loss.item() has a value on an array of one element and raises on any other
HasItem(loss) == Len(loss) = 1

\* the loop of Entity.test from pair k on, fitness being self.fitness so far
RECURSIVE Accumulate(_, _, _, _)
Accumulate(net_out, output, k, fitness) ==
    IF k \notin Zipped(net_out, output) THEN [raised |-> "", fitness |-> fitness]
    ELSE IF ~HasItem(SquaredError(net_out[k], output[k]))
         THEN [raised |-> "ValueError", fitness |-> fitness]
    ELSE Accumulate(net_out, output, k + 1,
                    fitness - SquaredError(net_out[k], output[k])[1])

\* Entity.test(data, output) where network.compute(data) gives net_out, one
\* array for each vector of data: the exception it ends with, "" for none, and
\* the fitness it leaves in the entity, an exact fraction
test(net_out, output) ==
    LET looped == Accumulate(net_out, output, 1, 0)
    IN  IF looped.raised # ""
        THEN [raised |-> looped.raised, fitness |-> [num |-> looped.fitness, den |-> 1]]
        ELSE IF Len(net_out) = 0
        THEN [raised |-> "ZeroDivisionError",
              fitness |-> [num |-> looped.fitness, den |-> 1]]
        ELSE [raised |-> "", fitness |-> [num |-> looped.fitness, den |-> Len(net_out)]]

\* self.fitness > entity.fitness
FitterOrEqual(self, entity) == self.fitness[1] >= entity.fitness[1]

\* the comparison of Entity.mate: self.fitness > entity.fitness
Fitter(self, entity) == self.fitness[1] > entity.fitness[1]

RECURSIVE TakeWeights(_, _, _, _)
TakeWeights(E, slot, conns, genotype2) ==
    IF conns = {} THEN E
    ELSE LET mg == CHOOSE c \in conns : TRUE
         IN  TakeWeights(WriteWeight(E, slot, mg, genotype2.genes[mg].weight),
                         slot, conns \ {mg}, genotype2)

\* genotype1 of Entity.mate: the genotype of the fitter entity
Dominant(self, entity) == IF Fitter(self, entity) THEN self.genotype ELSE entity.genotype

\* genotype2 of Entity.mate
Recessive(self, entity) == IF Fitter(self, entity) THEN entity.genotype ELSE self.genotype

MatchedGenes(self, entity) ==
    DOMAIN Dominant(self, entity).genes \cap DOMAIN Recessive(self, entity).genes

\* Entity.mate up to its mutation: the child, in slot child, is a copy of
\* genotype1 whose genes in replaced (rand < .5) take genotype2's weight
crossover(W, self, entity, child, replaced) ==
    LET genotype1 == Dominant(W.entities[self], W.entities[entity])
        genotype2 == Recessive(W.entities[self], W.entities[entity])
        child_gen == Genotype_copy(genotype1, child)
        E1 == Put(W.entities, child, [genotype |-> child_gen, fitness |-> NoFitness])
    IN  [W EXCEPT !.entities = TakeWeights(E1, child, replaced, genotype2)]

\* Entity.mate, the child mutating under the draws d
mate(W, self, entity, child, replaced, d) ==
    mutate(crossover(W, self, entity, child, replaced), child, d)

\* -------------------------------------------------------------- specie.py
\* the marker count below which get_genetic_distance does not normalize
NormalizationFloor == 20

Abs(x) == IF x < 0 THEN -x ELSE x

Max(S) == CHOOSE m \in S : \A x \in S : x <= m

\* next(iter(genetics[g])): the id that the set of ids recorded for the
\* connection g yields first
Marker(reg, g) == Head(SetOrder(reg.ids[g]))

\* {(next(iter(genetics[g])), g) for g in genes}
markers_conns(reg, genes) == {<<Marker(reg, g), g>> : g \in DOMAIN genes}

RECURSIVE weight_dif(_, _, _)
weight_dif(conns, genes1, genes2) ==
    IF conns = {} THEN 0
    ELSE LET c == CHOOSE x \in conns : TRUE
         IN  Abs(genes1[c].weight - genes2[c].weight)
                + weight_dif(conns \ {c}, genes1, genes2)

MeanOfNone(weight_sum, match_num) == [num |-> weight_sum, den |-> 1]

\* weight_dif / match_num if match_num > 0 else 0, as a fraction
Mean(weight_sum, match_num) ==
    IF match_num > 0 THEN [num |-> weight_sum, den |-> match_num]
    ELSE [num |-> 0, den |-> 1]

\* Specie.get_genetic_distance between the genes of the specie's first
\* entity (genes1) and those of the entity (genes2).  c1, c2 and c3 are in
\* tenths, and the value returned is num / den tenths; raised is the KeyError
\* of genes1[c] for a connection c that the first entity does not hold
get_genetic_distance(genes1, genes2, reg, c1, c2, c3) ==
    LET markers_conns2 == markers_conns(reg, genes2)
        markers1 == {t[1] : t \in markers_conns(reg, genes1)}
        markers2 == {t[1] : t \in markers_conns2}
        max_base_marker == IF markers1 = {} THEN 0 ELSE Max(markers1)
        larger == IF Cardinality(markers1) > Cardinality(markers2)
                  THEN Cardinality(markers1) ELSE Cardinality(markers2)
        n == IF larger < NormalizationFloor THEN 1 ELSE larger
        matching == {t \in markers_conns2 : t[1] \in markers1}
        excess_num == Cardinality({t \in markers_conns2 \ matching : t[1] > max_base_marker})
        disjoint_num == Cardinality({t \in markers_conns2 \ matching : t[1] <= max_base_marker})
                            + Cardinality(markers1 \ markers2)
        match_num == Cardinality(matching)
        raised == \E t \in matching : t[2] \notin DOMAIN genes1
        we == Mean(weight_dif({t[2] : t \in matching}, genes1, genes2), match_num)
    IN  IF raised
        THEN [raised |-> TRUE, ex |-> excess_num, di |-> disjoint_num, n |-> n,
              match_num |-> match_num, num |-> 0, den |-> 1]
        ELSE [raised |-> FALSE, ex |-> excess_num, di |-> disjoint_num, n |-> n,
              match_num |-> match_num,
              num |-> (c1 * excess_num + c2 * disjoint_num) * we.den + c3 * we.num * n,
              den |-> n * we.den]

\* Specie.__init__: the entity alone, shared_fitness 0 (a fraction)
Specie(slot) == [entities |-> <<slot>>, shared_fitness |-> [num |-> 0, den |-> 1]]

\* ---------------------------------------------------------------- neat.py
\* the defaults of NEAT.__init__: specie_acceptance 3 (in tenths),
\* population 150 and distance_params (1, 1, .4) (in tenths)
DefaultAcceptance == 30
DefaultPopulation == 150
distance_params == <<10, 10, 4>>

AcceptsOrTouches(d, acceptance) == d.num <= acceptance * d.den

\* delta < self.specie_acceptance, delta being the distance d
Accepts(d, acceptance) == d.num < acceptance * d.den

\* the distance of the entity in slot to the specie sp
Delta(W, sp, slot) ==
    get_genetic_distance(W.entities[sp.entities[1]].genotype.genes,
                         W.entities[slot].genotype.genes, W.genetics,
                         distance_params[1], distance_params[2], distance_params[3])

\* the loop of NEAT.insert_entity from the i-th specie on, and the new
\* specie when it ends
RECURSIVE first_fit(_, _, _)
first_fit(W, slot, i) ==
    IF i > Len(W.species)
    THEN [W EXCEPT !.species = Append(@, Specie(slot))]
    ELSE IF Delta(W, W.species[i], slot).raised THEN [W EXCEPT !.raised = TRUE]
    ELSE IF Accepts(Delta(W, W.species[i], slot), W.specie_acceptance)
    THEN [W EXCEPT !.species[i].entities = Append(@, slot)]
    ELSE first_fit(W, slot, i + 1)

\* NEAT.insert_entity; suggestion is the index of the suggested specie in
\* NEAT.species, 0 for None
insert_entity(W, slot, suggestion) ==
    IF suggestion # 0 /\ Delta(W, W.species[suggestion], slot).raised
    THEN [W EXCEPT !.raised = TRUE]
    ELSE IF suggestion # 0 /\ Accepts(Delta(W, W.species[suggestion], slot), W.specie_acceptance)
    THEN [W EXCEPT !.species[suggestion].entities = Append(@, slot)]
    ELSE first_fit(W, slot, 1)

\* NEAT.__init__(input_num, output_num, population, specie_acceptance): what
\* it leaves in the entities and the species
Founders(input_num, output_num, acceptance) ==
    LET W0 == [innovation |-> 0, genetics |-> genetics,
               entities |-> [slot \in {1, 2} |-> Entity(input_num, output_num, slot)],
               issued |-> <<>>, species |-> <<>>, specie_acceptance |-> acceptance,
               raised |-> FALSE]
    IN  insert_entity(insert_entity(W0, 1, 0), 2, 0)

\* the elements of a list
Range(q) == {q[k] : k \in DOMAIN q}

RECURSIVE Sum(_)
Sum(q) == IF q = <<>> THEN 0 ELSE Head(q) + Sum(Tail(q))

RECURSIVE Product(_)
Product(q) == IF q = <<>> THEN 1 ELSE Head(q) * Product(Tail(q))

\* a list left as it is
Unsorted(q, key) == q

\* list.sort(key = ..., reverse = True), key being a function on the
\* elements: descending, equal keys in their former order
RECURSIVE SortedDown(_, _)
SortedDown(q, key) ==
    IF q = <<>> THEN <<>>
    ELSE LET rest == SortedDown(Tail(q), key)
             ahead == SelectSeq(rest, LAMBDA x : key[x] > key[Head(q)])
             behind == SelectSeq(rest, LAMBDA x : key[x] <= key[Head(q)])
         IN  ahead \o <<Head(q)>> \o behind

\* round(a / b) for a >= 0 and b > 0: to the nearest integer, a half to the
\* even one
Round(a, b) ==
    LET q == a \div b
        r == a - q * b
    IN  IF 2 * r < b THEN q
        ELSE IF 2 * r > b THEN q + 1
        ELSE IF q % 2 = 0 THEN q ELSE q + 1

\* the shared fitness of the species sps over one denominator: the
\* numerators, negated (a fitness is never positive)
Shares(sps) ==
    LET common == Product([i \in DOMAIN sps |-> sps[i].shared_fitness.den])
    IN  [i \in DOMAIN sps |->
            (0 - sps[i].shared_fitness.num) * (common \div sps[i].shared_fitness.den)]

\* sum([s.shared_fitness for s in old_species]) is zero
NoSharedFitness(sps) == Sum(Shares(sps)) = 0

\* [round(s.shared_fitness / total_shared_fitness * population) for s in old_species]
Offsprings(sps, size) ==
    LET total == Sum(Shares(sps))
    IN  [i \in DOMAIN sps |-> Round(Shares(sps)[i] * size, total)]

\* the slot of the entity that a mate creates in the world W
ChildSlot(W) == CHOOSE n \in 1..(Cardinality(DOMAIN W.entities) + 1) :
                    n \notin DOMAIN W.entities /\ \A m \in 1..(n - 1) : m \in DOMAIN W.entities

\* within the bounds of the model
Bounded(W) ==
    /\ ~W.raised
    /\ W.innovation - innovation <= budget
    /\ \A j \in DOMAIN W.entities :
            Cardinality(W.entities[j].genotype.hidden_nodes) <= MaxHidden

\* list(reversed(q))
Reversed(q) == [k \in 1..Len(q) |-> q[Len(q) - k + 1]]

\* weights that grow with the rank: [i + 1 for i in range(len(members))], not
\* reversed
rank_probabilities(members) == [i \in 1..Len(members) |-> i]

\* mate_probabilities of NEAT.next_generation for the entities of a specie:
\* list(reversed([i + 1 for i in range(len(specie.entities))]))
mate_probabilities(members) == Reversed([i \in 1..Len(members) |-> i])

\* what one draw of random.choices(members, weights, k=2) can give: an
\* element of positive weight, whatever the other draw gave
choices(members, weights) ==
    {members[k] : k \in {n \in DOMAIN members : weights[n] > 0}}

\* parent1.mate(parent2) for parents drawn from the specie sp, the child
\* going to slot child
Mates(W, sp, child) ==
    UNION {UNION {UNION {
        {mutate(crossover(W, parent1, parent2, child, replaced), child, d) :
            d \in Draws(crossover(W, parent1, parent2, child, replaced).entities[child].genotype)} :
        replaced \in SUBSET MatchedGenes(W.entities[parent1], W.entities[parent2])} :
        parent2 \in choices(sp.entities, mate_probabilities(sp.entities))} :
        parent1 \in choices(sp.entities, mate_probabilities(sp.entities))}

\* one turn of the inner loop of NEAT.next_generation on the result r: a
\* child of the specie sp, the k-th of the old species, mated and inserted
Born(r, sp, k) ==
    {[W |-> insert_entity(w, ChildSlot(r.W), 0),
      children |-> Append(r.children, [slot |-> ChildSlot(r.W), specie |-> k])] :
        w \in {x \in Mates(r.W, sp, ChildSlot(r.W)) : Bounded(x)}}

RECURSIVE Breed(_, _, _, _)
Breed(R, sp, k, offspring) ==
    IF offspring <= 0 THEN R
    ELSE Breed(UNION {Born(r, sp, k) : r \in R}, sp, k, offspring - 1)

\* the outer loop of NEAT.next_generation from the k-th old specie on
RECURSIVE Recreate(_, _, _, _)
Recreate(R, old_species, offsprings, k) ==
    IF k > Len(old_species) THEN R
    ELSE Recreate(Breed(R, old_species[k], k, offsprings[k]), old_species, offsprings, k + 1)

\* the specie_acceptance that NEAT.next_generation leaves
Adapted(acceptance, count, size) ==
    IF count < size \div 4 THEN acceptance - 1 ELSE acceptance + 1

\* a next_generation that passes on the last entity of the last specie
Carried_last(old_species) ==
    old_species[Len(old_species)].entities[Len(old_species[Len(old_species)].entities)]

\* the entity that next_generation passes on unchanged:
\* old_species[0].entities[0]
Carried(old_species) == old_species[1].entities[1]

\* NEAT.next_generation on tested species with a shared fitness: the
\* outcomes its random draws allow, each with the children it created
next_generation(W, size) ==
    LET old_species == W.species
        offsprings == [Offsprings(old_species, size) EXCEPT ![1] = @ - 1]
        best == Carried(old_species)
        W1 == insert_entity([W EXCEPT !.species = <<>>], best, 0)
    IN  {[W |-> [r.W EXCEPT !.specie_acceptance = Adapted(@, Len(r.W.species), size)],
          children |-> r.children] :
            r \in Recreate({[W |-> W1, children |-> <<>>]}, old_species, offsprings, 1)}

\* ------------------------------- neat_original.py, specie_original.py
\* The original variant is modelled on genotypes without genes: its children
\* mint no id, and on such genotypes Entity.mate of entity_original.py
\* returns a copy of the dominant parent's genotype.

\* Specie.__init__ of specie_original.py
Specie_original(slot, age) ==
    [entities |-> <<slot>>, shared_fitness |-> [num |-> 0, den |-> 1], age |-> age]

\* Specie.persist: the first entity alone, one generation older
persist(sp) == Specie_original(sp.entities[1], sp.age + 1)

\* Specie.get_genetic_distance of specie_original.py: the markers are the
\* gene ids, and genetics[marker] is the connection of a matching marker
get_genetic_distance_original(genes1, genes2, reg, c1, c2, c3) ==
    LET markers1 == {genes1[conn].gene_id : conn \in DOMAIN genes1}
        markers2 == {genes2[conn].gene_id : conn \in DOMAIN genes2}
        max_base_marker == IF markers1 = {} THEN 0 ELSE Max(markers1)
        larger == IF Cardinality(markers1) > Cardinality(markers2)
                  THEN Cardinality(markers1) ELSE Cardinality(markers2)
        n == IF larger < NormalizationFloor THEN 1 ELSE larger
        matching_markers == markers1 \cap markers2
        diff_markers == (markers1 \ markers2) \cup (markers2 \ markers1)
        match_num == Cardinality(matching_markers)
        connections == {reg.conn[marker] : marker \in matching_markers}
        raised == \E c \in connections : c \notin DOMAIN genes1 \/ c \notin DOMAIN genes2
        disjoint_num == Cardinality({m \in diff_markers : m <= max_base_marker})
        excess_num == Cardinality({m \in diff_markers : m > max_base_marker})
        we == Mean(weight_dif(connections, genes1, genes2), match_num)
    IN  IF raised
        THEN [raised |-> TRUE, ex |-> excess_num, di |-> disjoint_num, n |-> n,
              match_num |-> match_num, num |-> 0, den |-> 1]
        ELSE [raised |-> FALSE, ex |-> excess_num, di |-> disjoint_num, n |-> n,
              match_num |-> match_num,
              num |-> (c1 * excess_num + c2 * disjoint_num) * we.den + c3 * we.num * n,
              den |-> n * we.den]

Delta_original(W, sp, slot) ==
    get_genetic_distance_original(W.entities[sp.entities[1]].genotype.genes,
                                  W.entities[slot].genotype.genes, W.genetics,
                                  distance_params[1], distance_params[2], distance_params[3])

RECURSIVE first_fit_original(_, _, _)
first_fit_original(W, slot, i) ==
    IF i > Len(W.species)
    THEN [W EXCEPT !.species = Append(@, Specie_original(slot, 0))]
    ELSE IF Delta_original(W, W.species[i], slot).raised THEN [W EXCEPT !.raised = TRUE]
    ELSE IF Accepts(Delta_original(W, W.species[i], slot), W.specie_acceptance)
    THEN [W EXCEPT !.species[i].entities = Append(@, slot)]
    ELSE first_fit_original(W, slot, i + 1)

\* NEAT.insert_entity of neat_original.py, without a suggestion
insert_entity_original(W, slot) == first_fit_original(W, slot, 1)

\* parent1.mate(parent2) of entity_original.py on parents without genes
mate_original(W, parent1, parent2, child) ==
    crossover(W, parent1, parent2, child, {})

\* one turn of the inner loop of next_generation of neat_original.py
Born_original(W, sp) ==
    {insert_entity_original(mate_original(W, parent1, parent2, ChildSlot(W)), ChildSlot(W)) :
        parent1 \in Range(sp.entities), parent2 \in Range(sp.entities)}

RECURSIVE Breed_original(_, _, _)
Breed_original(Ws, sp, offspring) ==
    IF offspring <= 0 THEN Ws
    ELSE Breed_original(UNION {Born_original(W, sp) : W \in Ws}, sp, offspring - 1)

\* if offspring > 0: the old specie goes on
Persists(offspring) == offspring > 0

\* the loop of next_generation of neat_original.py from the k-th specie on
RECURSIVE Recreate_original(_, _, _, _)
Recreate_original(Ws, old_species, offsprings, k) ==
    IF k > Len(old_species) THEN Ws
    ELSE IF Persists(offsprings[k])
    THEN Recreate_original(
            Breed_original({[W EXCEPT !.species = Append(@, persist(old_species[k]))] : W \in Ws},
                           old_species[k], offsprings[k] - 1),
            old_species, offsprings, k + 1)
    ELSE Recreate_original(Ws, old_species, offsprings, k + 1)

\* NEAT.next_generation of neat_original.py on species with a shared fitness
next_generation_original(W, size) ==
    Recreate_original({[W EXCEPT !.species = <<>>]}, W.species,
                      Offsprings(W.species, size), 1)

\* ------------------------------------------------------------- network.py
\* Node values are reals.  The model keeps them exact: a value is an integer
\* c plus a sum of sigmoid terms, t giving for each argument of the sigmoid
\* how many times the term occurs
Num(n) == [c |-> n, t |-> <<>>]

Plus(u, v) ==
    [c |-> u.c + v.c,
     t |-> [x \in DOMAIN u.t \cup DOMAIN v.t |->
                (IF x \in DOMAIN u.t THEN u.t[x] ELSE 0)
                    + (IF x \in DOMAIN v.t THEN v.t[x] ELSE 0)]]

\* value * weight for a weight that is a natural number
Times(v, weight) ==
    IF weight = 0 THEN Num(0)
    ELSE [c |-> v.c * weight, t |-> [x \in DOMAIN v.t |-> v.t[x] * weight]]

\* Node.activation_sigmoid_custom: 1 / (1 + e ** (-4.9 * value))
activation_sigmoid_custom(value) == [c |-> 0, t |-> [x \in {value} |-> 1]]

\* Node.__init__; activation says whether the node has the sigmoid
Node(activation) ==
    [value |-> Num(0), past_value |-> Num(0), visited |-> FALSE, calculated |-> FALSE,
     predecessors |-> <<>>, activation |-> activation]

\* the elements of a set of numbers, ascending: the order in which a set of
\* small integers is iterated
RECURSIVE Ascending(_)
Ascending(S) ==
    IF S = {} THEN <<>>
    ELSE LET least == CHOOSE x \in S : \A y \in S : x <= y
         IN  <<least>> \o Ascending(S \ {least})

\* the (in_node, weight) pairs appended to the node out_id, conns being the
\* connections of genotype.genes in the order of the dictionary
Predecessors(genotype, conns, out_id) ==
    LET into == SelectSeq(conns, LAMBDA conn : conn[2] = out_id)
    IN  [k \in DOMAIN into |-> <<into[k][1], genotype.genes[into[k]].weight>>]

\* Network.__init__
Network(genotype, conns) ==
    [nodes |-> [id \in genotype.input_nodes \cup genotype.output_nodes
                        \cup genotype.hidden_nodes |->
                    [Node(id \in genotype.hidden_nodes) EXCEPT
                        !.predecessors = Predecessors(genotype, conns, id)]],
     input_nodes |-> Ascending(genotype.input_nodes),
     output_nodes |-> Ascending(genotype.output_nodes)]

\* the probability output of Network.compute: the softmax or the sigmoid of
\* the result
Probability(result) == [probability |-> result]

\* what Network.compute appends to output for the values result
Transform(result, output_type) ==
    IF output_type = "probability" THEN Probability(result) ELSE result

\* the caller of a get_value receives r: the list comprehension of compute
\* appends it, a get_value adds r * weight to its node's value and goes on
\* with its next predecessor
Deliver(N, r) ==
    IF N.stack = <<>> THEN [N EXCEPT !.result = Append(@, r)]
    ELSE LET top == N.stack[Len(N.stack)]
             weight == N.nodes[top.node].predecessors[top.i][2]
         IN  [N EXCEPT !.nodes[top.node].value = Plus(@, Times(r, weight)),
                       !.stack[Len(N.stack)].i = @ + 1]

\* the flag a node has after its first visit in a pass
Revisitable(N, id) == FALSE

Visited(N, id) == TRUE

\* Node.get_value is called on the node id: a first visit marks the node and
\* starts its loop, a later one returns at once
get_value(N, id) ==
    IF ~N.nodes[id].visited
    THEN [N EXCEPT !.nodes[id].visited = Visited(N, id),
                   !.stack = Append(@, [node |-> id, i |-> 1]),
                   !.sums[id] = @ + 1,
                   !.calls = @ + 1,
                   !.read = [node |-> id, kind |-> "first"]]
    ELSE LET r == IF N.nodes[id].calculated THEN N.nodes[id].value
                  ELSE N.nodes[id].past_value
         IN  Deliver([N EXCEPT !.calls = @ + 1,
                               !.read = [node |-> id,
                                         kind |-> IF N.nodes[id].calculated
                                                  THEN "settled" ELSE "recurrent",
                                         value |-> r]], r)

\* the get_value on top of the stack is past its loop: activation,
\* calculated, return
return_value(N) ==
    LET id == N.stack[Len(N.stack)].node
        value == IF N.nodes[id].activation
                 THEN activation_sigmoid_custom(N.nodes[id].value)
                 ELSE N.nodes[id].value
    IN  Deliver([N EXCEPT !.nodes[id].value = value,
                          !.nodes[id].calculated = TRUE,
                          !.stack = SubSeq(@, 1, Len(@) - 1),
                          !.read = [node |-> id, kind |-> "return", value |-> value]],
                value)

\* the past_value that the reset loop of Network.compute leaves
PastKept(value, input_type) == value

PastValue(value, input_type) == IF input_type = "points" THEN Num(0) ELSE value

\* Node.reset and the statement of Network.compute that follows it
reset(node, input_type) ==
    [node EXCEPT !.visited = FALSE, !.calculated = FALSE,
                 !.past_value = PastValue(node.value, input_type),
                 !.value = Num(0)]

\* ---------------------------------------------------------------- actions
\* the step to the world w, within the bounds of the model
Apply(w, m) ==
    /\ ~w.raised
    /\ w.innovation - innovation <= budget
    /\ \A j \in DOMAIN w.entities :
            Cardinality(w.entities[j].genotype.hidden_nodes) <= MaxHidden
    /\ innovation' = w.innovation
    /\ genetics' = w.genetics
    /\ entities' = w.entities
    /\ issued' = w.issued
    /\ budget' = budget - (w.innovation - innovation)
    /\ runs' = runs
    /\ mated' = m
    /\ species' = w.species
    /\ specie_acceptance' = w.specie_acceptance
    /\ population' = population
    /\ generation' = generation
    /\ error_value' = error_value
    /\ network' = network
    /\ call' = <<>>

Live == DOMAIN entities
Free == Slots \ Live

\* NEAT.__init__: a new controller with its two founders
NewRun ==
    /\ runs < MaxRuns
    /\ entities' = Founders(NumInputs, NumOutputs, DefaultAcceptance).entities
    /\ species' = Founders(NumInputs, NumOutputs, DefaultAcceptance).species
    /\ specie_acceptance' = DefaultAcceptance
    /\ population' = DefaultPopulation
    /\ generation' = 0
    /\ error_value' = <<>>
    /\ innovation' = NumInputs + NumOutputs
    /\ runs' = runs + 1
    /\ issued' = <<>>
    /\ mated' = <<>>
    /\ call' = <<>>
    /\ UNCHANGED <<genetics, budget, network>>

AddConnection(slot) ==
    \E key \in Picks(OpenRoutes(entities[slot].genotype)), w \in DefaultWeights :
        \E W1 \in {add_connection(World, slot, key, w)} : Apply(W1, <<>>)

IntersectConnection(slot) ==
    \E conn \in Picks(DOMAIN entities[slot].genotype.genes) :
        \E W1 \in {intersect_connection(World, slot, conn)} : Apply(W1, <<>>)

Mutate(slot) ==
    \E d \in Draws(entities[slot].genotype) :
        \E W1 \in {mutate(World, slot, d)} : Apply(W1, <<>>)

Copy(slot, cp) ==
    /\ entities' = Put(entities, cp, [genotype |-> Genotype_copy(entities[slot].genotype, cp),
                                      fitness |-> NoFitness])
    /\ mated' = <<>>
    /\ call' = <<>>
    /\ UNCHANGED <<innovation, genetics, runs, issued, budget,
                   species, specie_acceptance, population, generation, error_value, network>>

Mate(self, entity, child) ==
    /\ entities[self].fitness # NoFitness
    /\ entities[entity].fitness # NoFitness
    /\ \E replaced \in SUBSET MatchedGenes(entities[self], entities[entity]) :
          \E W1 \in {crossover(World, self, entity, child, replaced)} :
             \E d \in Draws(W1.entities[child].genotype) :
                \E W2 \in {mutate(W1, child, d)} :
                   Apply(W2, [self |-> self, entity |-> entity, child |-> child,
                              replaced |-> replaced,
                              child_gen |-> W1.entities[child].genotype])

\* Entity.test: the fitness the data gives
Test(slot) ==
    /\ \E f \in FitnessValues : entities' = [entities EXCEPT ![slot].fitness = <<f>>]
    /\ mated' = <<>>
    /\ call' = <<>>
    /\ UNCHANGED <<innovation, genetics, runs, issued, budget,
                   species, specie_acceptance, population, generation, error_value, network>>

\* the entities that are in a specie
Placed == UNION {{species[i].entities[k] : k \in DOMAIN species[i].entities} :
                    i \in DOMAIN species}

\* the slot a new entity of the controller takes
NextSlot == CHOOSE n \in 1..(Cardinality(Live) + 1) :
                n \notin Live /\ \A m \in 1..(n - 1) : m \in Live

\* NEAT.insert_entity(entity, suggestion) on an entity outside the species
InsertEntity(slot, suggestion) ==
    /\ slot \notin Placed
    /\ \E W1 \in {insert_entity(World, slot, suggestion)} :
          /\ ~W1.raised
          /\ species' = W1.species
    /\ call' = [op |-> "insert_entity", entity |-> slot, suggestion |-> suggestion]
    /\ mated' = <<>>
    /\ UNCHANGED <<innovation, genetics, entities, runs, issued, budget,
                   specie_acceptance, population, generation, error_value, network>>

\* what the network of a genotype is built from
Phenotype(g) ==
    [genes |-> [c \in DOMAIN g.genes |-> g.genes[c].weight], hidden_nodes |-> g.hidden_nodes]

\* NEAT.test: every entity of every specie takes the fitness that the data
\* give its network, every specie the mean fitness of its entities
TestAll ==
    /\ \E f \in [{Phenotype(entities[j].genotype) : j \in Placed} -> FitnessValues] :
          /\ entities' = [j \in Live |->
                            IF j \in Placed
                            THEN [entities[j] EXCEPT
                                    !.fitness = <<f[Phenotype(entities[j].genotype)]>>]
                            ELSE entities[j]]
          /\ species' = [i \in DOMAIN species |->
                            [species[i] EXCEPT !.shared_fitness =
                                [num |-> Sum([k \in DOMAIN species[i].entities |->
                                            f[Phenotype(entities[species[i].entities[k]].genotype)]]),
                                 den |-> Len(species[i].entities)]]]
    /\ call' = [op |-> "test"]
    /\ mated' = <<>>
    /\ UNCHANGED <<innovation, genetics, runs, issued, budget,
                   specie_acceptance, population, generation, error_value, network>>

\* NEAT.sort, after a test
Sort ==
    /\ call # <<>> /\ call.op = "test"
    /\ species # <<>>
    /\ generation < MaxGenerations
    /\ LET fitness == [j \in Live |-> entities[j].fitness[1]]
           sorted == [i \in DOMAIN species |->
                        [species[i] EXCEPT !.entities = SortedDown(@, fitness)]]
           best == [sp \in Range(sorted) |-> fitness[sp.entities[1]]]
       IN  /\ species' = SortedDown(sorted, best)
           /\ error_value' = Append(error_value, 0 - best[SortedDown(sorted, best)[1]])
    /\ generation' = generation + 1
    /\ call' = [op |-> "sort"]
    /\ mated' = <<>>
    /\ UNCHANGED <<innovation, genetics, entities, runs, issued, budget,
                   specie_acceptance, population, network>>

\* NEAT.next_generation, after a test and a sort.  Without a shared fitness
\* the division raises ZeroDivisionError, self.species being already empty
NextGeneration ==
    /\ call # <<>> /\ call.op = "sort"
    /\ IF NoSharedFitness(species)
       THEN /\ species' = <<>>
            /\ entities' = <<>>
            /\ call' = [op |-> "next_generation", raised |-> TRUE,
                        old_species |-> species, best |-> species[1].entities[1],
                        offsprings |-> <<>>, children |-> <<>>]
            /\ UNCHANGED <<innovation, genetics, issued, budget, specie_acceptance>>
       ELSE \E r \in next_generation(World, population) :
                /\ innovation' = r.W.innovation
                /\ genetics' = r.W.genetics
                /\ issued' = r.W.issued
                /\ budget' = budget - (r.W.innovation - innovation)
                /\ species' = r.W.species
                /\ specie_acceptance' = r.W.specie_acceptance
                /\ entities' = [j \in UNION {Range(sp.entities) : sp \in Range(r.W.species)}
                                    |-> r.W.entities[j]]
                /\ call' = [op |-> "next_generation", raised |-> FALSE,
                            old_species |-> species, best |-> species[1].entities[1],
                            offsprings |-> [Offsprings(species, population) EXCEPT ![1] = @ - 1],
                            children |-> r.children]
    /\ mated' = <<>>
    /\ UNCHANGED <<runs, population, generation, error_value, network>>

\* every entity is tested, whatever its fitness
TestsAgain(entity) == TRUE

\* entity.fitness is None
Untested(entity) == entity.fitness = NoFitness

\* NEAT.test of neat_original.py: only the entities without a fitness are
\* tested
TestAll_original ==
    /\ \E f \in [{Phenotype(entities[j].genotype) : j \in Placed} -> FitnessValues] :
          LET fitness == [j \in Live |->
                            IF j \in Placed /\ Untested(entities[j])
                            THEN <<f[Phenotype(entities[j].genotype)]>>
                            ELSE entities[j].fitness]
          IN  /\ entities' = [j \in Live |-> [entities[j] EXCEPT !.fitness = fitness[j]]]
              /\ species' = [i \in DOMAIN species |->
                                [species[i] EXCEPT !.shared_fitness =
                                    [num |-> Sum([k \in DOMAIN species[i].entities |->
                                                    fitness[species[i].entities[k]][1]]),
                                     den |-> Len(species[i].entities)]]]
    /\ call' = [op |-> "test"]
    /\ mated' = <<>>
    /\ UNCHANGED <<innovation, genetics, runs, issued, budget,
                   specie_acceptance, population, generation, error_value, network>>

\* NEAT.next_generation of neat_original.py, after a test and a sort
NextGeneration_original ==
    /\ call # <<>> /\ call.op = "sort"
    /\ IF NoSharedFitness(species)
       THEN /\ species' = <<>>
            /\ entities' = <<>>
            /\ call' = [op |-> "next_generation_original", raised |-> TRUE,
                        old_species |-> species, best |-> species[1].entities[1],
                        offsprings |-> <<>>]
       ELSE \E W \in next_generation_original(World, population) :
                /\ ~W.raised
                /\ species' = W.species
                /\ entities' = [j \in UNION {Range(sp.entities) : sp \in Range(W.species)}
                                    |-> W.entities[j]]
                /\ call' = [op |-> "next_generation_original", raised |-> FALSE,
                            old_species |-> species, best |-> species[1].entities[1],
                            offsprings |-> Offsprings(species, population)]
    /\ mated' = <<>>
    /\ UNCHANGED <<innovation, genetics, issued, budget, specie_acceptance,
                   runs, population, generation, error_value, network>>

\* the process after its first NEAT(NumInputs, NumOutputs, size, acceptance)
\* of neat_original.py
Founded_original(acceptance, size) ==
    LET W0 == [innovation |-> 0, genetics |-> [ids |-> <<>>, conn |-> <<>>],
               entities |-> [slot \in {1, 2} |-> Entity(NumInputs, NumOutputs, slot)],
               issued |-> <<>>, species |-> <<>>, specie_acceptance |-> acceptance,
               raised |-> FALSE]
        W2 == insert_entity_original(insert_entity_original(W0, 1), 2)
    IN  /\ innovation = 0
        /\ genetics = [ids |-> <<>>, conn |-> <<>>]
        /\ entities = W2.entities
        /\ species = W2.species
        /\ specie_acceptance = acceptance
        /\ population = size
        /\ generation = 0
        /\ error_value = <<>>
        /\ network = <<>>
        /\ runs = 1
        /\ issued = <<>>
        /\ mated = <<>>
        /\ call = <<>>

\* the process after its first NEAT(NumInputs, NumOutputs)
Founded(acceptance, size) ==
    /\ innovation = NumInputs + NumOutputs
    /\ genetics = [ids |-> <<>>, conn |-> <<>>]
    /\ entities = Founders(NumInputs, NumOutputs, acceptance).entities
    /\ species = Founders(NumInputs, NumOutputs, acceptance).species
    /\ specie_acceptance = acceptance
    /\ population = size
    /\ generation = 0
    /\ error_value = <<>>
    /\ network = <<>>
    /\ runs = 1
    /\ issued = <<>>
    /\ mated = <<>>
    /\ call = <<>>

\* NEAT(NumInputs, NumOutputs)
Start == Founded(DefaultAcceptance, DefaultPopulation)

Init == Start /\ budget = MaxMinted

\* the genetic operators on the founders, one controller
NextRun ==
    \/ \E slot \in Live : AddConnection(slot)
    \/ \E slot \in Live : IntersectConnection(slot)

\* the same, in a process that constructs controllers again
Next ==
    \/ NewRun
    \/ \E slot \in Live : AddConnection(slot)
    \/ \E slot \in Live : IntersectConnection(slot)

Spec == Init /\ [][Next]_vars

SpecRun == Init /\ [][NextRun]_vars

InitCopy == Start /\ budget = CopyMinted

\* one controller: copies of genotypes and what mutates them
NextCopy ==
    \/ \E slot \in Live, cp \in Free : Copy(slot, cp)
    \/ \E slot \in Live : AddConnection(slot)
    \/ \E slot \in Live : IntersectConnection(slot)
    \/ \E slot \in Live : Mutate(slot)

SpecCopy == InitCopy /\ [][NextCopy]_vars

InitMate == Start /\ budget = MateMinted

\* one controller: evaluation, crossover and mutation
NextMate ==
    \/ \E slot \in Live : Test(slot)
    \/ \E self \in Live, entity \in Live, child \in Free : Mate(self, entity, child)
    \/ \E slot \in Live : Mutate(slot)

SpecMate == InitMate /\ [][NextMate]_vars

\* the thresholds a controller is constructed with, in tenths
Acceptances == {10, DefaultAcceptance}

InitSpecies ==
    /\ \E acceptance \in Acceptances : Founded(acceptance, DefaultPopulation)
    /\ budget = SpeciesMinted

\* one controller: entities are copied, change and are put into species
NextSpecies ==
    \/ \E slot \in Live : Cardinality(Live) < MaxMembers /\ Copy(slot, NextSlot)
    \/ \E slot \in Live : AddConnection(slot)
    \/ \E slot \in Live : IntersectConnection(slot)
    \/ \E slot \in Live, suggestion \in 0..Len(species) : InsertEntity(slot, suggestion)

SpecSpecies == InitSpecies /\ [][NextSpecies]_vars

\* NEAT(NumInputs, NumOutputs, 3, 1.0), whose children may mint BredMinted
\* ids, or NEAT(NumInputs, NumOutputs, 8, .1), whose children mint none
InitBreed ==
    \/ Founded(10, SmallPopulation) /\ budget = BredMinted
    \/ Founded(1, LargePopulation) /\ budget = 0

\* one controller driven through generations: test, sort, next_generation
NextBreed ==
    \/ TestAll
    \/ Sort
    \/ NextGeneration

SpecBreed == InitBreed /\ [][NextBreed]_vars

\* NEAT.test with the data of the tests before it: a network is built anew
\* from the genotype at every test, so an entity that was tested and has not
\* changed since takes the fitness it had
TestSameData ==
    /\ TestAll
    /\ \A j \in Placed :
          entities[j].fitness # NoFitness => entities'[j].fitness = entities[j].fitness

\* one controller driven through generations with one dataset
NextSameData ==
    \/ TestSameData
    \/ Sort
    \/ NextGeneration

SpecSameData == InitBreed /\ [][NextSameData]_vars

\* NEAT(NumInputs, NumOutputs, size, acceptance) of neat_original.py with a
\* threshold of 0 or the default
InitOriginal ==
    /\ \E acceptance \in {0, DefaultAcceptance}, size \in {SmallPopulation, LargePopulation} :
            Founded_original(acceptance, size)
    /\ budget = 0

\* the original variant driven through generations
NextOriginal ==
    \/ TestAll_original
    \/ Sort
    \/ NextGeneration_original

SpecOriginal == InitOriginal /\ [][NextOriginal]_vars

\* the species are Specie objects of specie_original.py
Original == \E i \in DOMAIN species : "age" \in DOMAIN species[i]

InitTest == InitBreed \/ InitOriginal

\* a controller of either variant driven through generations
NextTest ==
    \/ ~Original /\ TestAll
    \/ ~Original /\ Sort
    \/ ~Original /\ NextGeneration
    \/ Original /\ TestAll_original
    \/ Original /\ Sort
    \/ Original /\ NextGeneration_original

SpecTest == InitTest /\ [][NextTest]_vars

\* what a step of the network leaves alone
ControllerUnchanged ==
    UNCHANGED <<innovation, genetics, entities, runs, issued, mated, budget, species,
                specie_acceptance, population, generation, error_value, call>>

\* Network.compute is called on the object: the statements before its loop
Compute(data, input_type, output_type) ==
    /\ network # <<>> /\ network.pc = "idle"
    /\ network.computes < MaxCalls
    /\ network' = [network EXCEPT !.data = data, !.input_type = input_type,
                                  !.output_type = output_type, !.output = <<>>,
                                  !.pc = IF data = <<>> THEN "idle" ELSE "vector",
                                  !.computes = @ + 1, !.read = <<>>]
    /\ ControllerUnchanged

\* for v, node in zip(vector, self.input_nodes): node.set_value(v)
SetValues ==
    /\ network # <<>> /\ network.pc = "vector"
    /\ LET vector == Head(network.data)
           given == {k \in DOMAIN vector : k \in DOMAIN network.input_nodes}
       IN  network' = [network EXCEPT
                !.nodes = [id \in DOMAIN network.nodes |->
                            IF \E k \in given : network.input_nodes[k] = id
                            THEN [network.nodes[id] EXCEPT !.value =
                                    Num(vector[CHOOSE k \in given : network.input_nodes[k] = id])]
                            ELSE network.nodes[id]],
                !.vector = vector, !.result = <<>>, !.pc = "pull",
                !.sums = [id \in DOMAIN network.nodes |-> 0],
                !.returned = <<>>, !.calls = 0, !.depth = 0, !.read = <<>>]
    /\ ControllerUnchanged

\* the deepest stack of get_value calls of the pass
Deepest(N) == [N EXCEPT !.depth = IF Len(N.stack) > @ THEN Len(N.stack) ELSE @]

\* [node.get_value() for node in self.output_nodes]: the next call
Pull ==
    /\ network # <<>> /\ network.pc = "pull"
    /\ network.stack = <<>>
    /\ Len(network.result) < Len(network.output_nodes)
    /\ network' = Deepest(get_value(network, network.output_nodes[Len(network.result) + 1]))
    /\ ControllerUnchanged

\* for node, weight in self.predecessors: node.get_value()
Descend ==
    /\ network # <<>> /\ network.pc = "pull"
    /\ network.stack # <<>>
    /\ LET top == network.stack[Len(network.stack)]
       IN  /\ top.i <= Len(network.nodes[top.node].predecessors)
           /\ network' = Deepest(get_value(network,
                                           network.nodes[top.node].predecessors[top.i][1]))
    /\ ControllerUnchanged

\* the end of a first visit: the node returns its value
Return ==
    /\ network # <<>> /\ network.pc = "pull"
    /\ network.stack # <<>>
    /\ LET top == network.stack[Len(network.stack)]
       IN  /\ top.i > Len(network.nodes[top.node].predecessors)
           /\ \E N \in {return_value(network)} :
                 network' = [N EXCEPT !.returned = Put(@, top.node, N.nodes[top.node].value)]
    /\ ControllerUnchanged

\* the rest of the loop body of Network.compute: the output of the vector
\* and the reset of every node
Reset ==
    /\ network # <<>> /\ network.pc = "pull"
    /\ network.stack = <<>>
    /\ Len(network.result) = Len(network.output_nodes)
    /\ network' = [network EXCEPT
            !.output = Append(@, Transform(network.result, network.output_type)),
            !.nodes = [id \in DOMAIN network.nodes |->
                            reset(network.nodes[id], network.input_type)],
            !.data = Tail(@),
            !.pc = IF Tail(network.data) = <<>> THEN "idle" ELSE "vector",
            !.finished = [id \in DOMAIN network.nodes |-> network.nodes[id].value],
            !.last_type = network.input_type,
            !.fresh = IF network.passes = 0
                      THEN [vector |-> network.vector, result |-> network.result]
                      ELSE @,
            !.passes = @ + 1,
            !.read = <<>>]
    /\ ControllerUnchanged

\* the weights of the genes a network is built from: a weight that is
\* exactly 0 has probability 0
NetWeights == 1..MaxWeight

\* the ids of the hidden nodes of a genotype with n of them
HiddenIds(n) == (NumInputs + NumOutputs)..(NumInputs + NumOutputs + n - 1)

\* the connections a genotype with the hidden nodes H can hold
Pairs(H) ==
    {conn \in ((0..(NumInputs - 1)) \cup H)
                \X (H \cup (NumInputs..(NumInputs + NumOutputs - 1))) : conn[1] # conn[2]}

\* the dictionaries of genes, as lists of connections in insertion order,
\* that the genetic operators can leave: every hidden node has a gene into
\* it and a gene out of it
GeneLists(H) ==
    {conns \in UNION {[1..n -> Pairs(H)] : n \in 0..MaxNetGenes} :
        /\ \A j, k \in DOMAIN conns : j # k => conns[j] # conns[k]
        /\ \A h \in H : /\ \E k \in DOMAIN conns : conns[k][2] = h
                        /\ \E k \in DOMAIN conns : conns[k][1] = h}

\* a genotype with the hidden nodes H and the genes conns
Decoded(H, conns, weights) ==
    [input_nodes |-> 0..(NumInputs - 1),
     output_nodes |-> NumInputs..(NumInputs + NumOutputs - 1),
     hidden_nodes |-> H, hidden_obj |-> 0,
     genes |-> [conn \in Range(conns) |-> Gene(0, weights[conn], 0)],
     routes |-> <<>>]

\* the input vectors and the lists of them that compute is given
Vectors == [1..NumInputs -> {0, 1}]
Datasets == UNION {[1..n -> Vectors] : n \in 0..MaxVectors}

\* a process that has built a Network from a genotype
InitNetwork ==
    /\ innovation = NumInputs + NumOutputs
    /\ genetics = [ids |-> <<>>, conn |-> <<>>]
    /\ entities = <<>>
    /\ species = <<>>
    /\ specie_acceptance = DefaultAcceptance
    /\ population = DefaultPopulation
    /\ generation = 0
    /\ error_value = <<>>
    /\ runs = 1
    /\ issued = <<>>
    /\ mated = <<>>
    /\ call = <<>>
    /\ budget = 0
    /\ \E n \in 0..NetHidden : \E conns \in GeneLists(HiddenIds(n)) :
          \E weights \in [Range(conns) -> NetWeights] :
             \E N \in {Network(Decoded(HiddenIds(n), conns, weights), conns)} :
                network = [nodes |-> N.nodes, input_nodes |-> N.input_nodes,
                           output_nodes |-> N.output_nodes,
                           pc |-> "idle", data |-> <<>>, vector |-> <<>>,
                           input_type |-> "points", output_type |-> "probability",
                           output |-> <<>>, result |-> <<>>, stack |-> <<>>,
                           computes |-> 0, passes |-> 0, calls |-> 0, depth |-> 0,
                           sums |-> [id \in DOMAIN N.nodes |-> 0],
                           returned |-> <<>>,
                           finished |-> [id \in DOMAIN N.nodes |-> Num(0)],
                           last_type |-> "", fresh |-> <<>>, read |-> <<>>]

\* the steps of a compute call that is under way
Evaluate ==
    \/ SetValues
    \/ Pull
    \/ Descend
    \/ Return
    \/ Reset

\* compute calls on one Network object, each run to its end
NextNetwork ==
    \/ \E data \in Datasets, input_type \in {"points", "sequence"},
            output_type \in {"probability", "raw"} :
                Compute(data, input_type, output_type)
    \/ SetValues
    \/ Pull
    \/ Descend
    \/ Return
    \/ Reset

SpecNetwork == InitNetwork /\ [][NextNetwork]_vars /\ WF_vars(Evaluate)

\* ------------------------------------------------ Entity.test on a dataset
\* the values an output node gives and an expected output holds
OutputLevels == {0, 1}

\* the outputs of a network of output_num output nodes on n vectors, and the
\* expected outputs of n samples
Outputs(n, output_num) == [1..n -> [1..output_num -> OutputLevels]]

\* Entity.test(data, output) on the entity of a slot, net_out being what its
\* network computes for data
EntityTest(slot, net_out, output) ==
    /\ \E r \in {test(net_out, output)} :
          /\ entities' = [entities EXCEPT ![slot].fitness = <<r.fitness>>]
          /\ call' = [op |-> "Entity.test", entity |-> slot, net_out |-> net_out,
                      output |-> output, raised |-> r.raised,
                      before |-> entities[slot].fitness]
    /\ mated' = <<>>
    /\ UNCHANGED <<innovation, genetics, runs, issued, budget, species,
                   specie_acceptance, population, generation, error_value, network>>

\* Entity(NumInputs, output_num) of a module that has made nothing else
InitFitness ==
    /\ innovation = 0
    /\ genetics = [ids |-> <<>>, conn |-> <<>>]
    /\ \E output_num \in 1..MaxOutputs :
          entities = <<Entity(NumInputs, output_num, 1)>>
    /\ species = <<>>
    /\ specie_acceptance = DefaultAcceptance
    /\ population = DefaultPopulation
    /\ generation = 0
    /\ error_value = <<>>
    /\ network = <<>>
    /\ runs = 1
    /\ issued = <<>>
    /\ mated = <<>>
    /\ call = <<>>
    /\ budget = 0

NextFitness ==
    \E slot \in DOMAIN entities : \E n \in 0..MaxSamples :
       \E net_out \in Outputs(n, Cardinality(entities[slot].genotype.output_nodes)) :
          \E output \in Outputs(n, Cardinality(entities[slot].genotype.output_nodes)) :
             EntityTest(slot, net_out, output)

SpecFitness == InitFitness /\ [][NextFitness]_vars

\* ------------------------------------- add_connection on founders alone
\* NEAT(input_num, output_num) in a new process, for the sizes within the bounds
InitFounder ==
    \E input_num \in 1..MaxInputs, output_num \in 1..MaxOutputs :
        /\ innovation = input_num + output_num
        /\ genetics = [ids |-> <<>>, conn |-> <<>>]
        /\ entities = Founders(input_num, output_num, DefaultAcceptance).entities
        /\ species = Founders(input_num, output_num, DefaultAcceptance).species
        /\ specie_acceptance = DefaultAcceptance
        /\ population = DefaultPopulation
        /\ generation = 0
        /\ error_value = <<>>
        /\ network = <<>>
        /\ runs = 1
        /\ issued = <<>>
        /\ mated = <<>>
        /\ call = <<>>
        /\ budget = MaxInputs * MaxOutputs

\* the founders of one controller under add_connection, no split
NextFounder == \E slot \in Live : AddConnection(slot)

SpecFounder == InitFounder /\ [][NextFounder]_vars

\* ------------------------------------------------------------------ claims
EmptyRegistry == [ids |-> <<>>, conn |-> <<>>]

\* the ids the registry records for the connection c
Recorded(reg, c) == IF c \in DOMAIN reg.ids THEN Keys(reg.ids[c]) ELSE {}

\* this step is intersect_connection on the genotype in slot j picking conn
Splits(j, conn) ==
    LET w == intersect_connection(World, j, conn)
    IN  /\ ~w.raised
        /\ entities' = w.entities
        /\ genetics' = w.genetics
        /\ innovation' = w.innovation

\* C1 (innovation identity): within one run, the genes insert_gene makes for
\* one connection on genotypes that hold no hidden node split from that
\* connection all carry the same innovation id.
C1_InnovationIdentity == \A c \in DOMAIN issued : Cardinality(issued[c]) <= 1

\* C8 (registry reset): constructing a controller leaves the counter at its
\* start value and both registry maps empty.
C8_RegistryReset ==
    [][runs' # runs => (innovation' = NumInputs + NumOutputs /\ genetics' = EmptyRegistry)]_vars

\* C2 (split rewiring): intersect_connection on a gene (a, b) with id k and
\* weight w removes it, adds k to hidden_nodes, adds exactly the two genes
\* (a, k) with weight 1 and (k, b) with weight w, and leaves every other gene
\* as it was.
C2_SplitRewiring ==
    [][\A j \in Live : \A conn \in DOMAIN entities[j].genotype.genes :
        Splits(j, conn) =>
            LET g == entities[j].genotype
                h == entities'[j].genotype
                k == g.genes[conn].gene_id
                key1 == <<conn[1], k>>
                key2 == <<k, conn[2]>>
            IN  /\ key1 \notin DOMAIN g.genes
                /\ key2 \notin DOMAIN g.genes
                /\ DOMAIN h.genes = (DOMAIN g.genes \ {conn}) \cup {key1, key2}
                /\ h.genes[key1].weight = 1
                /\ h.genes[key2].weight = g.genes[conn].weight
                /\ k \in h.hidden_nodes
                /\ \A c \in DOMAIN g.genes \ {conn} : h.genes[c] = g.genes[c]]_vars

C4_RoutesInvariant ==
    \A j \in Live : \A c \in DOMAIN entities[j].genotype.genes :
        c[2] \notin entities[j].genotype.routes[c[1]].nodes

\* C5 (node identity): within a run, every intersect_connection adds exactly
\* one hidden-node id that was not an input, output or hidden node of the
\* genotype, and the three node sets stay pairwise disjoint.
C5_NodeIdentity ==
    [][\A j \in Live : \A conn \in DOMAIN entities[j].genotype.genes :
        Splits(j, conn) =>
            LET g == entities[j].genotype
                h == entities'[j].genotype
                k == g.genes[conn].gene_id
            IN  /\ k \notin g.input_nodes \cup g.output_nodes \cup g.hidden_nodes
                /\ h.hidden_nodes = g.hidden_nodes \cup {k}
                /\ h.input_nodes \cap h.output_nodes = {}
                /\ h.input_nodes \cap h.hidden_nodes = {}
                /\ h.output_nodes \cap h.hidden_nodes = {}]_vars

\* C7 (registry consistency): within one run the counter never decreases,
\* every id a step records is below the counter, and every id recorded for a
\* pair maps back to that pair.
C7_RegistryConsistency ==
    [][runs' = runs =>
        /\ innovation' >= innovation
        /\ \A i \in DOMAIN genetics'.conn \ DOMAIN genetics.conn : i < innovation'
        /\ \A c \in DOMAIN genetics'.ids :
              \A i \in Keys(genetics'.ids[c]) : genetics'.conn[i] = c]_vars

\* C6 (copy independence): a step that changes one genotype (a mutation, an
\* added or split connection, a weight change) leaves every other genotype,
\* its copies and its source among them, as it was.
C6_CopyIndependence ==
    [][\A i \in Live : \A j \in Live \ {i} :
        entities'[i] # entities[i] => entities'[j] = entities[j]]_vars

\* a copy has gained genes, a hidden node and a changed weight while the
\* founders, its source among them, hold what they held when it was made
C6_CopyMutated ==
    \E cp \in Live \ {1, 2} :
        /\ entities[cp].genotype.hidden_nodes # {}
        /\ \E c \in DOMAIN entities[cp].genotype.genes :
              entities[cp].genotype.genes[c].weight = 0
                /\ c[1] \in entities[cp].genotype.input_nodes
        /\ \A j \in {1, 2} : /\ DOMAIN entities[j].genotype.genes = {<<0, 1>>}
                             /\ entities[j].genotype.genes[<<0, 1>>].weight = 1

GeneObjs(g) == {g.genes[c].obj : c \in DOMAIN g.genes}
RouteObjs(g) == {g.routes[n].obj : n \in DOMAIN g.routes}

\* C9 (crossover leaves the parents untouched): Entity.mate changes no
\* existing entity, genotype or fitness, and returns an entity with fitness
\* None whose genotype shares no gene object and no routes set with a parent.
C9_ParentsUntouched ==
    [][mated' # <<>> =>
        LET child == entities'[mated'.child]
        IN  /\ mated'.child \notin Live
            /\ \A j \in Live : entities'[j] = entities[j]
            /\ child.fitness = NoFitness
            /\ \A j \in {mated'.self, mated'.entity} :
                  /\ GeneObjs(child.genotype) \cap GeneObjs(entities'[j].genotype) = {}
                  /\ RouteObjs(child.genotype) \cap RouteObjs(entities'[j].genotype) = {}]_vars

\* a mate of two entities that hold one gene with different weights has just
\* returned a child that mutated after the crossover
C9_ChildMutated ==
    /\ mated # <<>>
    /\ mated.self # mated.entity
    /\ entities[mated.child].genotype # mated.child_gen
    /\ \E c \in DOMAIN entities[mated.self].genotype.genes
                    \cap DOMAIN entities[mated.entity].genotype.genes :
          entities[mated.self].genotype.genes[c].weight
                # entities[mated.entity].genotype.genes[c].weight

\* the genotype g without the identities of its objects
Content(g) ==
    [input_nodes |-> g.input_nodes, output_nodes |-> g.output_nodes,
     hidden_nodes |-> g.hidden_nodes,
     genes |-> [c \in DOMAIN g.genes |-> g.genes[c].gene_id],
     routes |-> [n \in DOMAIN g.routes |-> g.routes[n].nodes]]

\* C10 (crossover dominance): the child genotype of self.mate(other) starts
\* as a copy of self's genotype exactly when self.fitness > other.fitness,
\* and of other's genotype otherwise, ties included; before it mutates its
\* gene keys are the dominant parent's.
C10_Dominance ==
    [][mated' # <<>> =>
        LET self == entities[mated'.self]
            other == entities[mated'.entity]
            dominant == IF self.fitness[1] > other.fitness[1] THEN self ELSE other
        IN  /\ Content(mated'.child_gen) = Content(dominant.genotype)
            /\ DOMAIN mated'.child_gen.genes = DOMAIN dominant.genotype.genes]_vars

\* a mate of two entities of equal fitness and different genes has just
\* returned, and its child started from the second operand's genes
C10_Tie ==
    /\ mated # <<>>
    /\ entities[mated.self].fitness = entities[mated.entity].fitness
    /\ DOMAIN entities[mated.self].genotype.genes # DOMAIN entities[mated.entity].genotype.genes
    /\ DOMAIN mated.child_gen.genes = DOMAIN entities[mated.entity].genotype.genes

\* C11 (crossover aligns genes by historical marker): whatever fitness two
\* entities of the controller are given, every gene that Entity.mate treats
\* as matching (a gene of the dominant genotype whose weight may be replaced
\* by the recessive genotype's) carries the same innovation id in both.
C11_MarkerAlignment ==
    \A self \in Live, entity \in Live : \A f1 \in FitnessValues, f2 \in FitnessValues :
        LET s == [entities[self] EXCEPT !.fitness = <<f1>>]
            e == [entities[entity] EXCEPT !.fitness = <<f2>>]
        IN  \A mg \in MatchedGenes(s, e) :
                Dominant(s, e).genes[mg].gene_id = Recessive(s, e).genes[mg].gene_id

\* the (c1, c2, c3) the distance is checked with, in tenths: the default
\* (1, 1, .4) of NEAT.__init__, and (1, 1, 1)
DistanceParams == {<<10, 10, 4>>, <<10, 10, 10>>}

\* the same pairs under the same ids
SameGenes(genes1, genes2) ==
    /\ DOMAIN genes1 = DOMAIN genes2
    /\ \A c \in DOMAIN genes1 : genes1[c].gene_id = genes2[c].gene_id

\* one gene (0, 1) with id 2 and the weight w, and the registry that records it
OneGene(w) == [c \in {<<0, 1>>} |-> Gene(2, w, 1)]
OneGeneRegistry == [ids |-> [c \in {<<0, 1>>} |-> SetAdd(EmptySet, 2)],
                    conn |-> [i \in {2} |-> <<0, 1>>]]

\* C12 (distance between structurally identical genotypes): when the first
\* entity of a species and the candidate hold the same genes (same pairs and
\* ids), get_genetic_distance returns c3 times the mean absolute weight
\* difference over those genes, with no excess and no disjoint gene; it is 0
\* for a clone, and 2 for one shared gene with weights 1 and 3 and c3 = 1.
C12_IdenticalStructure ==
    /\ \A rep \in Live, cand \in Live : \A c \in DistanceParams :
          LET genes1 == entities[rep].genotype.genes
              genes2 == entities[cand].genotype.genes
              d == get_genetic_distance(genes1, genes2, genetics, c[1], c[2], c[3])
              count == Cardinality(DOMAIN genes1)
          IN  SameGenes(genes1, genes2) =>
                /\ ~d.raised
                /\ d.ex = 0 /\ d.di = 0
                /\ IF count = 0 THEN d.num = 0
                   ELSE d.num * count = c[3] * weight_dif(DOMAIN genes1, genes1, genes2) * d.den
                /\ genes1 = [g \in DOMAIN genes2 |-> [genes2[g] EXCEPT !.obj = rep]]
                        => d.num = 0
    /\ LET d == get_genetic_distance(OneGene(1), OneGene(3), OneGeneRegistry, 10, 10, 10)
       IN  ~d.raised /\ d.num = 20 * d.den

\* two entities hold the same two or more genes, and every weight differs
C12_TwoGenesApart ==
    \E rep \in Live, cand \in Live :
        /\ SameGenes(entities[rep].genotype.genes, entities[cand].genotype.genes)
        /\ Cardinality(DOMAIN entities[rep].genotype.genes) >= 2
        /\ \A c \in DOMAIN entities[rep].genotype.genes :
              entities[rep].genotype.genes[c].weight # entities[cand].genotype.genes[c].weight

\* the innovation ids of the genes themselves
GeneIds(genes) == {genes[c].gene_id : c \in DOMAIN genes}

\* C13 (distance marker classification): get_genetic_distance counts two
\* genes as matching exactly when their own ids are equal, a gene of the
\* candidate alone as excess exactly when its own id exceeds the greatest
\* gene id of the representative and as disjoint otherwise, and a gene of
\* the representative alone as disjoint.
C13_OwnIdMarkers ==
    \A rep \in Live, cand \in Live :
        LET genes1 == entities[rep].genotype.genes
            genes2 == entities[cand].genotype.genes
            d == get_genetic_distance(genes1, genes2, genetics, 10, 10, 4)
            ids1 == GeneIds(genes1)
            ids2 == GeneIds(genes2)
            greatest == IF ids1 = {} THEN 0 ELSE Max(ids1)
        IN  /\ ~d.raised
            /\ d.match_num = Cardinality(ids1 \cap ids2)
            /\ d.ex = Cardinality({i \in ids2 \ ids1 : i > greatest})
            /\ d.di = Cardinality({i \in ids2 \ ids1 : i <= greatest})
                        + Cardinality(ids1 \ ids2)

\* C14 (distance against empty genotypes never faults): for any first entity
\* of a species and any candidate, with or without genes,
\* get_genetic_distance returns a value; its divisors are at least 1 and the
\* mean weight difference is 0 when no gene matches.
C14_DistanceReturns ==
    \A rep \in Live, cand \in Live : \A c \in DistanceParams :
        LET genes1 == entities[rep].genotype.genes
            genes2 == entities[cand].genotype.genes
            d == get_genetic_distance(genes1, genes2, genetics, c[1], c[2], c[3])
        IN  /\ ~d.raised
            /\ d.n >= 1
            /\ d.den >= 1
            /\ d.match_num = 0 => d.num = (c[1] * d.ex + c[2] * d.di) * d.den

\* how many times the entity occurs in the species sps
RECURSIVE Memberships(_, _)
Memberships(sps, slot) ==
    IF sps = <<>> THEN 0
    ELSE Cardinality({k \in DOMAIN Head(sps).entities : Head(sps).entities[k] = slot})
            + Memberships(Tail(sps), slot)

\* the species, in the state before the step, whose distance to the entity
\* is strictly below specie_acceptance
Fits(slot) ==
    {i \in DOMAIN species :
        LET d == Delta(World, species[i], slot)
        IN  d.num < specie_acceptance * d.den}

\* C15 (first-fit species assignment): insert_entity(e) without a suggestion
\* appends e to the first specie, in list order, whose distance to e is
\* strictly below specie_acceptance, and appends a new one-member specie only
\* when no specie accepts; afterwards e is in exactly one specie and no other
\* specie's membership changed.
C15_FirstFit ==
    [][(call' # <<>> /\ call'.op = "insert_entity" /\ call'.suggestion = 0) =>
        LET e == call'.entity
        IN  /\ IF Fits(e) = {}
               THEN species' = Append(species, [entities |-> <<e>>,
                                                shared_fitness |-> [num |-> 0, den |-> 1]])
               ELSE LET first == CHOOSE i \in Fits(e) : \A j \in Fits(e) : i <= j
                    IN  species' = [species EXCEPT ![first].entities = Append(@, e)]
            /\ Memberships(species', e) = 1]_vars

\* insert_entity has just put an entity into the second specie, as a later
\* member: the first specie refused it at a distance equal to the threshold
C15_SecondAccepts ==
    /\ call # <<>> /\ call.op = "insert_entity" /\ call.suggestion = 0
    /\ Len(species) >= 2
    /\ Len(species[2].entities) >= 2
    /\ species[2].entities[Len(species[2].entities)] = call.entity
    /\ LET d == Delta(World, species[1], call.entity)
       IN  d.num = specie_acceptance * d.den

\* a step of NEAT.next_generation
Bred == call' # <<>> /\ call'.op = "next_generation"

\* C16 (parent-species hint): in next_generation a child whose distance to
\* its parents' specie is below the threshold is accepted there: it ends in
\* the specie of the new population that the first entity of its parents'
\* specie leads.
C16_ParentSpecie ==
    [][(Bred /\ ~call'.raised) =>
        \A k \in DOMAIN call'.children :
            LET child == call'.children[k].slot
                leader == call'.old_species[call'.children[k].specie].entities[1]
                d == get_genetic_distance(entities[leader].genotype.genes,
                                          entities'[child].genotype.genes, genetics',
                                          distance_params[1], distance_params[2],
                                          distance_params[3])
            IN  (~d.raised /\ d.num < specie_acceptance * d.den) =>
                    \E i \in DOMAIN species' :
                        /\ species'[i].entities[1] = leader
                        /\ child \in Range(species'[i].entities)]_vars

\* C17 (elitism in neat.py): after every next_generation that follows test
\* and sort, the first entity of the first old specie is in exactly one
\* specie of the new population, its genotype unchanged, whatever the quotas.
C17_BestCarried ==
    [][Bred =>
        /\ Memberships(species', call'.best) = 1
        /\ call'.best \in DOMAIN entities'
        /\ entities'[call'.best].genotype = entities[call'.best].genotype]_vars

\* how many entities the species hold
Placements(sps) == Sum([i \in DOMAIN sps |-> Len(sps[i].entities)])

\* C19 (reproduction conservation): the quotas of next_generation, the top
\* specie's less one, sum with the one carried best entity to a value at
\* most S/2 away from the population P, and the number of entities placed
\* in the new population equals that sum.
C19_Conservation ==
    [][(Bred /\ ~call'.raised) =>
        LET total == Sum(call'.offsprings) + 1
        IN  /\ 2 * Abs(total - population) <= Len(species)
            /\ Placements(species') = total]_vars

\* C20 (threshold adaptation): every next_generation changes
\* specie_acceptance by exactly one step of 0.1, downwards when the new
\* population has fewer species than population // 4, upwards otherwise,
\* with no floor and no ceiling.
C20_Adaptation ==
    [][Bred =>
        specie_acceptance' = IF Len(species') < population \div 4
                             THEN specie_acceptance - 1
                             ELSE specie_acceptance + 1]_vars

\* a step of next_generation of neat_original.py that returns
BredOriginal == call' # <<>> /\ call'.op = "next_generation_original" /\ ~call'.raised

\* C18 (elitism in the original variant): after every next_generation of
\* neat_original.py that follows test and sort, the first entity of the
\* first old specie is in the new population, and every old specie whose
\* rounded quota is positive has its first entity as the first entity of a
\* new specie that is one generation older.
C18_OriginalElitism ==
    [][BredOriginal =>
        /\ Memberships(species', call'.best) >= 1
        /\ \A k \in DOMAIN call'.old_species :
              call'.offsprings[k] > 0 =>
                \E i \in DOMAIN species' :
                    /\ species'[i].entities[1] = call'.old_species[k].entities[1]
                    /\ species'[i].age = call'.old_species[k].age + 1]_vars

\* a step of NEAT.sort
Sorted == call' # <<>> /\ call'.op = "sort"

\* the fitness values of the entities in the species
PlacedFitness == {entities[j].fitness[1] : j \in Placed}

\* C21 (sort postcondition): after NEAT.sort on a tested population the
\* entities of every specie are in non-increasing order of fitness, the
\* species in non-increasing order of their first entity's fitness, the first
\* entity of the first specie has the greatest fitness of the population,
\* error_value is longer by one element, the negation of that fitness, and
\* the species hold the entities they held.
C21_SortPostcondition ==
    [][Sorted =>
        LET fit(j) == entities'[j].fitness[1]
        IN  /\ \A i \in DOMAIN species' : \A k \in 1..(Len(species'[i].entities) - 1) :
                    fit(species'[i].entities[k]) >= fit(species'[i].entities[k + 1])
            /\ \A i \in 1..(Len(species') - 1) :
                    fit(species'[i].entities[1]) >= fit(species'[i + 1].entities[1])
            /\ fit(species'[1].entities[1]) = Max(PlacedFitness)
            /\ error_value' = Append(error_value, 0 - Max(PlacedFitness))
            /\ Len(species') = Len(species)
            /\ {Range(sp.entities) : sp \in Range(species')}
                    = {Range(sp.entities) : sp \in Range(species)}
            /\ \A i \in DOMAIN species' :
                    Len(species'[i].entities) = Cardinality(Range(species'[i].entities))
            /\ entities' = entities]_vars

\* a sort has left, in a specie of several entities, a fitter entity before
\* a less fit one, and has recorded the error 0 of the fittest
C21_SortedApart ==
    /\ call # <<>> /\ call.op = "sort"
    /\ \E i \in DOMAIN species :
            /\ Len(species[i].entities) >= 2
            /\ entities[species[i].entities[1]].fitness[1]
                    > entities[species[i].entities[Len(species[i].entities)]].fitness[1]
    /\ error_value[Len(error_value)] = 0

\* a step of NEAT.test
Tested == call' # <<>> /\ call'.op = "test"

C23_EvaluationTerminates ==
    /\ [](network.pc = "pull" =>
            /\ Len(network.stack) <= Cardinality(DOMAIN network.nodes)
            /\ network.depth <= Cardinality(DOMAIN network.nodes)
            /\ \A id \in DOMAIN network.nodes : network.sums[id] <= 1
            /\ network.calls <= Len(network.output_nodes)
                    + Sum([k \in DOMAIN Ascending(DOMAIN network.nodes) |->
                            Len(network.nodes[Ascending(DOMAIN network.nodes)[k]].predecessors)]))
    /\ (network.pc # "idle") ~> (network.pc = "idle")

\* in a later pass over a network with a cycle among its hidden nodes a
\* get_value has met a node that is visited and not yet calculated, after
\* the stack has been as deep as the network has nodes
C23_CycleMet ==
    /\ network.pc = "pull"
    /\ network.passes >= 1
    /\ network.read # <<>> /\ network.read.kind = "recurrent"
    /\ network.depth = Cardinality(DOMAIN network.nodes)
    /\ \E id \in DOMAIN network.nodes :
            /\ network.nodes[id].activation
            /\ \E k \in DOMAIN network.nodes[id].predecessors :
                    network.nodes[network.nodes[id].predecessors[k][1]].activation

\* a get_value has just returned at once from a node that was visited
Reread == network.read # <<>> /\ network.read.kind \in {"recurrent", "settled"}

Pulled ==
    /\ network.pc = "pull"
    /\ network.stack = <<>>
    /\ Len(network.result) = Len(network.output_nodes)

\* C25 (no carry-over in points mode): in a compute call with input_type
\* 'points' every read of a visited, not yet calculated node returns 0, and
\* the raw output of a vector is the one that the Network object gave for
\* the same vector when it was new, whatever was computed on it since.
C25_NoCarryOver ==
    network.input_type = "points" =>
        /\ (network.read # <<>> /\ network.read.kind = "recurrent") =>
                network.read.value = Num(0)
        /\ (Pulled /\ network.fresh # <<>> /\ network.fresh.vector = network.vector) =>
                network.result = network.fresh.result

\* Entity.test has just been called on a dataset that is not empty
TestedOn == call # <<>> /\ call.op = "Entity.test" /\ Len(call.net_out) > 0

\* the squared error between the output of the network and the expected
\* output, summed over the samples
RECURSIVE TotalError(_, _)
TotalError(net_out, output) ==
    IF net_out = <<>> THEN 0
    ELSE Sum(SquaredError(Head(net_out), Head(output)))
         + TotalError(Tail(net_out), Tail(output))

\* C26 (fitness bound): after Entity.test on a dataset that is not empty the
\* stored fitness is the negated mean over the samples of the squared error
\* between the output of the network and the expected output; it is never
\* greater than 0, and it is 0 when the output equals the expected output on
\* every sample.
C26_FitnessBound ==
    TestedOn =>
        LET fitness == entities[call.entity].fitness[1]
        IN  /\ fitness.num * Len(call.net_out)
                  = (0 - TotalError(call.net_out, call.output)) * fitness.den
            /\ fitness.num <= 0
            /\ call.net_out = call.output => fitness.num = 0

\* C27 (empty dataset): Entity.test on an empty dataset fails with an
\* invalid-input error that a guard raises, not with a division by zero, and
\* leaves the fitness of the entity as it was before the call.
C27_EmptyDataset ==
    (call # <<>> /\ call.op = "Entity.test" /\ Len(call.net_out) = 0) =>
        /\ call.raised = "InvalidInput"
        /\ entities[call.entity].fitness = call.before

\* every routes set of the genotype is empty
Exhausted(g) == \A n \in DOMAIN g.routes : g.routes[n].nodes = {}

\* C28 (exhausted genomes are a no-op): add_connection on a genotype whose
\* every routes set is empty, and intersect_connection on a genotype with no
\* genes, return without error and leave the genotype (nodes, genes, routes),
\* every other genotype, the registry and the counter as they were.
C28_ExhaustedNoOp ==
    \A slot \in Live :
        /\ Exhausted(entities[slot].genotype) =>
                \A w \in DefaultWeights : add_connection(World, slot, <<>>, w) = World
        /\ DOMAIN entities[slot].genotype.genes = {} =>
                intersect_connection(World, slot, <<>>) = World

\* a genotype with a hidden node has all its routes sets empty, its owner's
\* add_connection can be taken and changes nothing, while another genotype
\* has no genes to split
C28_BothExhausted ==
    \E slot \in Live, other \in Live :
        /\ Exhausted(entities[slot].genotype)
        /\ entities[slot].genotype.hidden_nodes # {}
        /\ DOMAIN entities[other].genotype.genes = {}
        /\ ENABLED AddConnection(slot)
        /\ ENABLED IntersectConnection(other)

\* the pairs of an input node and an output node of the genotype
FounderPairs(g) == g.input_nodes \X g.output_nodes

\* the genotype is as its constructor and add_connection calls alone leave it:
\* its genes are input-output pairs and routes[i] holds the outputs that i has
\* no gene to
Unsplit(g) ==
    /\ g.hidden_nodes = {}
    /\ DOMAIN g.routes = g.input_nodes
    /\ DOMAIN g.genes \subseteq FounderPairs(g)
    /\ \A i \in g.input_nodes :
          g.routes[i].nodes = {o \in g.output_nodes : <<i, o>> \notin DOMAIN g.genes}

\* the step is an add_connection of the slot that added a gene
Added(slot) ==
    /\ AddConnection(slot)
    /\ DOMAIN entities'[slot].genotype.genes # DOMAIN entities[slot].genotype.genes

\* C29 (founder connection bound): a founder genotype with I inputs and O
\* outputs starts with zero genes and routes[i] equal to all outputs for every
\* input i; as long as no split occurs, each add_connection that adds a gene
\* adds one gene, for a pair not yet present, and takes the pair out of the
\* routes; a genotype holds at most I*O genes, so at most I*O calls add one,
\* and with I*O genes every add_connection is a no-op.
C29_FounderBound ==
    /\ [](\A slot \in Live :
            /\ Unsplit(entities[slot].genotype)
            /\ Cardinality(DOMAIN entities[slot].genotype.genes)
                    <= Cardinality(FounderPairs(entities[slot].genotype))
            /\ DOMAIN entities[slot].genotype.genes = FounderPairs(entities[slot].genotype) =>
                    /\ Exhausted(entities[slot].genotype)
                    /\ \A w \in DefaultWeights :
                            add_connection(World, slot, <<>>, w) = World)
    /\ [][\A slot \in Live :
            Added(slot) =>
                \E key \in FounderPairs(entities[slot].genotype)
                            \ DOMAIN entities[slot].genotype.genes :
                    /\ DOMAIN entities'[slot].genotype.genes
                            = DOMAIN entities[slot].genotype.genes \cup {key}
                    /\ \A other \in Live \ {slot} : entities'[other] = entities[other]]_vars

\* a founder with two inputs and one output holds its two genes and its
\* add_connection can be taken without effect, while the other founder of the
\* controller has none
C29_TwoOfTwo ==
    \E slot \in Live, other \in Live :
        /\ Cardinality(entities[slot].genotype.input_nodes) = 2
        /\ Cardinality(entities[slot].genotype.output_nodes) = 1
        /\ Cardinality(DOMAIN entities[slot].genotype.genes) = 2
        /\ Exhausted(entities[slot].genotype)
        /\ ENABLED AddConnection(slot)
        /\ DOMAIN entities[other].genotype.genes = {}

\* the connections and the hidden nodes that the genotype of a slot holds in
\* a world
GeneKeys(W, slot) == DOMAIN W.entities[slot].genotype.genes
HiddenNodes(W, slot) == W.entities[slot].genotype.hidden_nodes

\* one Genotype.mutate under the draws d, from the world before to the world
\* after, through the worlds after its weight step and after its add step: the
\* add step is nothing or one add_connection, the split step is nothing or one
\* intersect_connection and is nothing when no gene is there to split, and
\* the call adds at most 2 genes and 1 hidden node
StructuralStep(before, shifted, added, after, slot, d) ==
    /\ GeneKeys(shifted, slot) = GeneKeys(before, slot)
    /\ HiddenNodes(shifted, slot) = HiddenNodes(before, slot)
    /\ \/ added = shifted
       \/ d.add /\ added = add_connection(shifted, slot, d.key, d.weight)
    /\ Cardinality(GeneKeys(added, slot)) <= Cardinality(GeneKeys(before, slot)) + 1
    /\ HiddenNodes(added, slot) = HiddenNodes(before, slot)
    /\ \/ after = added
       \/ d.split /\ GeneKeys(added, slot) # {}
                  /\ after = intersect_connection(added, slot, d.conn)
    /\ GeneKeys(added, slot) = {} => after = added
    /\ Cardinality(GeneKeys(after, slot)) <= Cardinality(GeneKeys(added, slot)) + 1
    /\ Cardinality(GeneKeys(after, slot)) <= Cardinality(GeneKeys(before, slot)) + 2
    /\ Cardinality(HiddenNodes(after, slot)) <= Cardinality(HiddenNodes(before, slot)) + 1

\* C30 (structural step of mutate): one call of Genotype.mutate performs at
\* most one add_connection and then at most one intersect_connection, and
\* never attempts the split when the genotype has no genes after the add
\* step; hence one call raises the gene count by at most 2 and the
\* hidden-node count by at most 1.
C30_StructuralStep ==
    \A slot \in Live : \A d \in Draws(entities[slot].genotype) :
        StructuralStep(World,
                       mutate_weights(World, slot, d),
                       mutate_add(mutate_weights(World, slot, d), slot, d),
                       mutate(World, slot, d), slot, d)

\* the draws add a connection and split that same connection
SplitsTheAdded(after, slot, d) ==
    /\ d.add /\ d.split /\ d.key # <<>> /\ d.conn = d.key
    /\ ~after.raised
    /\ d.key \notin DOMAIN entities[slot].genotype.genes
    /\ d.key \notin GeneKeys(after, slot)
    /\ Cardinality(GeneKeys(after, slot))
            = Cardinality(DOMAIN entities[slot].genotype.genes) + 2
    /\ Cardinality(HiddenNodes(after, slot))
            = Cardinality(entities[slot].genotype.hidden_nodes) + 1

\* a gene added in a call is the one split in the same call: the copy of a
\* founder, which is what Entity.mate mutates, can take one mutate that
\* leaves it with two genes and one hidden node more, the added connection
\* not among them
C30_AddedThenSplit ==
    \E slot \in Live \ {1, 2} :
        \E d \in Draws(entities[slot].genotype) :
            /\ SplitsTheAdded(mutate(World, slot, d), slot, d)
            \* the call is a step that Mutate takes
            /\ mutate(World, slot, d).innovation - innovation <= budget
            /\ Cardinality(HiddenNodes(mutate(World, slot, d), slot)) <= MaxHidden

\* s.shared_fitness of the specie a is greater than that of the specie b
FitterSpecie(a, b) ==
    a.shared_fitness.num * b.shared_fitness.den > b.shared_fitness.num * a.shared_fitness.den

\* C31 (quota follows fitness): in NEAT.next_generation, of any two tested
\* species the one with the higher shared fitness (the lower error) receives
\* a rounded offspring quota at least as large as the one with the lower
\* shared fitness.
C31_QuotaFollowsFitness ==
    [][(Bred /\ ~call'.raised) =>
        \A i \in DOMAIN species, j \in DOMAIN species :
            FitterSpecie(species[i], species[j]) =>
                Offsprings(species, population)[i] >= Offsprings(species, population)[j]]_vars

\* C32 (rank weighting of parents): in next_generation both parents of a
\* child are drawn from the entities of one old specie, each draw over all of
\* them (the same entity may be both parents), and in the sorted specie the
\* weight of a member is strictly greater than that of every member of higher
\* rank and of every less fit member, the first member having the greatest.
C32_RankWeighting ==
    [][(Bred /\ ~call'.raised) =>
        \A i \in DOMAIN species :
            LET members == species[i].entities
                weights == mate_probabilities(members)
            IN  /\ DOMAIN weights = DOMAIN members
                /\ choices(members, weights) = Range(members)
                /\ \A a \in DOMAIN members, b \in DOMAIN members :
                      /\ a < b => weights[a] > weights[b]
                      /\ entities[members[a]].fitness[1] > entities[members[b]].fitness[1]
                            => weights[a] > weights[b]
                /\ \A a \in DOMAIN members : weights[1] >= weights[a]]_vars

\* next_generation has bred children from a specie that held entities of
\* different fitness (their mean is not a whole number)
C32_BredByRank ==
    /\ call # <<>> /\ call.op = "next_generation" /\ ~call.raised
    /\ \E i \in DOMAIN call.old_species :
          /\ Len(call.old_species[i].entities) >= 2
          /\ call.old_species[i].shared_fitness.num
                % call.old_species[i].shared_fitness.den # 0
          /\ \E c \in DOMAIN call.children : call.children[c].specie = i

\* C33 (gene endpoint well-formedness): every gene (a, b) of a genotype has
\* a in input_nodes or hidden_nodes, b in hidden_nodes or output_nodes, and
\* a # b: no gene is a self-loop, none targets an input node, none leaves an
\* output node, and Network.__init__ finds a node for both ends of every gene.
C33_GeneEndpoints ==
    \A slot \in Live :
        \A conn \in DOMAIN entities[slot].genotype.genes :
            /\ conn[1] \in entities[slot].genotype.input_nodes
                            \cup entities[slot].genotype.hidden_nodes
            /\ conn[2] \in entities[slot].genotype.hidden_nodes
                            \cup entities[slot].genotype.output_nodes
            /\ conn[1] # conn[2]

\* the nodes that the genes of the genotype lead to from the node n
Targets(g, n) == {conn[2] : conn \in {c \in DOMAIN g.genes : c[1] = n}}

\* C34 (routes are exactly the unused targets): for every input or hidden
\* node n of a genotype, routes[n] and the targets of the genes of n are
\* disjoint and their union is (hidden_nodes union output_nodes) minus {n};
\* so a connection that a split removed is in the routes again.
C34_RoutesExact ==
    \A slot \in Live :
        \A n \in entities[slot].genotype.input_nodes
                    \cup entities[slot].genotype.hidden_nodes :
            /\ n \in DOMAIN entities[slot].genotype.routes
            /\ entities[slot].genotype.routes[n].nodes
                    \cap Targets(entities[slot].genotype, n) = {}
            /\ entities[slot].genotype.routes[n].nodes
                    \cup Targets(entities[slot].genotype, n)
                  = (entities[slot].genotype.hidden_nodes
                        \cup entities[slot].genotype.output_nodes) \ {n}

\* C35 (best error never worsens): when the controller of neat.py is driven
\* as test, sort, next_generation with one dataset, error_value never
\* increases: the best fitness recorded at a sort is at least the best
\* fitness recorded at the sort before it.
C35_BestNeverWorsens ==
    \A k \in 1..(Len(error_value) - 1) : error_value[k + 1] <= error_value[k]

\* a later generation has been sorted and its best error is smaller than the
\* one recorded before it
C35_Improved ==
    /\ call # <<>> /\ call.op = "sort"
    /\ \E k \in 1..(Len(error_value) - 1) : error_value[k + 1] < error_value[k]

====
